---- MODULE Spec2Model ----
(***************************************************************************)
(* PrivOracle: the confidential prediction ledger (contract PrivOracle).   *)
(* State is the contract's storage, the chain's clock, the contract's      *)
(* balance, the engine's access-control list and the event log.  Every     *)
(* external call is one atomic step: it either commits all its writes or   *)
(* reverts, and a reverted call leaves the state as it was: its outcome is *)
(* the revert reason the *Revert operators compute.                        *)
(*                                                                         *)
(* An encrypted handle is the term of the computation that produced its    *)
(* ciphertext; the contract never reads a plaintext, only the off-chain    *)
(* Decrypt evaluates the term.                                             *)
(*                                                                         *)
(* TLC's integers are 32 bits wide, so the widths of uint64 and uint128    *)
(* are scaled down (Uint64Max, Uint128Max); the guards and the wrapping    *)
(* arithmetic are kept as in the code.                                     *)
(***************************************************************************)
EXTENDS Integers, FiniteSets, Bags, TLC

\* ------------------------------------------------------------------ bounds
\* The clock stops advancing once currentDay reaches MaxDay.
MaxDay == 2
\* At most this many calls ever succeed.
MaxCalls == 3

\* ------------------------------------------------------- program constants
\* `1 days`, in seconds.
OneDay == 86400
\* type(uint64).max, scaled.
Uint64Max == 4095
\* type(uint128).max, scaled.
Uint128Max == 7
\* uint8(Asset.BTC)
AssetBTC == 1

\* ------------------------------------------------------------ input domains
Users == {"deployer", "alice"}
\* address(this), the ledger itself, as a principal of the access-control list.
This == "this"
AssetIds == 0..(AssetBTC + 1)
Assets == 0..AssetBTC
Days == 0..(MaxDay + 1)
\* Plaintext prices the operator submits (the last one is out of range).
RecordPrices == {2000, 2100, Uint64Max + 1}
\* Plaintexts a user encrypts as the predicted price and the direction.
PredictedPrices == {2050}
Directions == {1}
\* The encrypted inputs the client of user `by` builds: the plaintext each holds
\* and who encrypted it (an input proof binds the input to its user).
ExternalPrices(by) == {[by |-> by, v |-> p] : p \in PredictedPrices}
ExternalDirections(by) == {[by |-> by, v |-> d] : d \in Directions}
\* msg.value of a placePrediction call.
StakeValues == {0, 1, 2, Uint128Max + 1}
\* block.timestamp at deployment (the middle of day 1) and the clock's step.
Genesis == OneDay + OneDay \div 2
ClockStep == OneDay

VARIABLES timestamp, owner, dailyPrice, priceRecorded, latestDay, predictions,
          points, pointsInitialized, acl, balance, events

ledger == <<owner, dailyPrice, priceRecorded, latestDay, predictions, points,
            pointsInitialized, acl, balance, events>>
vars == <<timestamp, owner, dailyPrice, priceRecorded, latestDay, predictions,
          points, pointsInitialized, acl, balance, events>>

\* ------------------------------------------------- confidential value engine
\* A handle names a ciphertext.  The engine derives the handle of a result
\* from the operation and the handles of its operands, so a handle is the term
\* of the computation that produced it: the same computation gives the same
\* handle, and nothing else does.
\* bytes32(0): the handle of a storage slot never written.
ZeroHandle == [op |-> "none", t |-> "none"]

\* Trivial encryption of a plaintext the contract knows.
FHE_asEuint8(x) == [op |-> "trivialEncrypt", t |-> "euint8", pt |-> x % 256]
FHE_asEuint64(x) == [op |-> "trivialEncrypt", t |-> "euint64", pt |-> x % (Uint64Max + 1)]
FHE_asEuint128(x) == [op |-> "trivialEncrypt", t |-> "euint128", pt |-> x % (Uint128Max + 1)]
\* An external input is [v, by]: the plaintext v encrypted off-chain by the
\* user `by`.  fromExternal reverts when the input proof fails.
FHE_fromExternal(ext, type) == [op |-> "verifyInput", t |-> type, input |-> ext]
FHE_gt(a, b) == [op |-> "gt", t |-> "ebool", lhs |-> a, rhs |-> b]
FHE_lt(a, b) == [op |-> "lt", t |-> "ebool", lhs |-> a, rhs |-> b]
FHE_eq(a, b) == [op |-> "eq", t |-> "ebool", lhs |-> a, rhs |-> b]
FHE_and(a, b) == [op |-> "and", t |-> "ebool", lhs |-> a, rhs |-> b]
FHE_or(a, b) == [op |-> "or", t |-> "ebool", lhs |-> a, rhs |-> b]
FHE_select(c, a, b) ==
    [op |-> "select", t |-> a.t, control |-> c, ifTrue |-> a, ifFalse |-> b]
FHE_add(a, b) == [op |-> "add", t |-> "euint128", lhs |-> a, rhs |-> b]
\* FHE.allow(handle, principal) / FHE.allowThis(handle): append-only grants.
FHE_allow(list, handle, principal) == list \cup {<<handle, principal>>}

\* Off-chain decryption of a handle: the plaintext its ciphertext holds.
\* The contract never evaluates it.
RECURSIVE Decrypt(_)
Decrypt(h) ==
    CASE h.op = "none" -> 0
      [] h.op = "trivialEncrypt" -> h.pt
      [] h.op = "verifyInput" -> h.input.v
      [] h.op = "gt" -> Decrypt(h.lhs) > Decrypt(h.rhs)
      [] h.op = "lt" -> Decrypt(h.lhs) < Decrypt(h.rhs)
      [] h.op = "eq" -> Decrypt(h.lhs) = Decrypt(h.rhs)
      [] h.op = "and" -> Decrypt(h.lhs) /\ Decrypt(h.rhs)
      [] h.op = "or" -> Decrypt(h.lhs) \/ Decrypt(h.rhs)
      [] h.op = "select" ->
            IF Decrypt(h.control) THEN Decrypt(h.ifTrue) ELSE Decrypt(h.ifFalse)
      [] h.op = "add" -> (Decrypt(h.lhs) + Decrypt(h.rhs)) % (Uint128Max + 1)

\* ------------------------------------------------------------------- storage
NoPrediction ==
    [price |-> ZeroHandle, direction |-> ZeroHandle, stake |-> 0,
     confirmed |-> FALSE, exists |-> FALSE]

currentDay == timestamp \div OneDay

\* emit: the log is append-only; it is kept as a bag (the events with their counts).
emit(log, event) == log (+) SetToBag({event})

\* The number of calls that have succeeded so far: each sets one flag.
Calls ==
    Cardinality({k \in Assets \X Days : priceRecorded[k[1]][k[2]]})
    + Cardinality({k \in Users \X Assets \X Days : predictions[k[1]][k[2]][k[3]].exists})
    + Cardinality({k \in Users \X Assets \X Days : predictions[k[1]][k[2]][k[3]].confirmed})

Init ==
    /\ timestamp = Genesis
    /\ owner = "deployer"
    /\ dailyPrice = [a \in Assets |-> [d \in Days |-> 0]]
    /\ priceRecorded = [a \in Assets |-> [d \in Days |-> FALSE]]
    /\ latestDay = [a \in Assets |-> 0]
    /\ predictions = [u \in Users |-> [a \in Assets |-> [d \in Days |-> NoPrediction]]]
    /\ points = [u \in Users |-> ZeroHandle]
    /\ pointsInitialized = [u \in Users |-> FALSE]
    /\ acl = {}
    /\ balance = 0
    /\ events = emit(EmptyBag, [name |-> "OwnerUpdated", previousOwner |-> "0x0",
                                   newOwner |-> "deployer"])

\* The chain's clock: block.timestamp only grows.
Tick ==
    /\ (timestamp + ClockStep) \div OneDay <= MaxDay
    /\ timestamp' = timestamp + ClockStep
    /\ UNCHANGED ledger

\* ---------------------------------------------------------- recordDailyPrice
\* A recordDailyPrice that lost its "Price already recorded" check.
recordDailyPriceRevertNoRecordedCheck(sender, asset, price) ==
    CASE sender # owner -> "Owner only"
      [] ~(asset <= AssetBTC) -> "Invalid asset"
      [] ~(price <= Uint64Max) -> "Price too large"
      [] OTHER -> "ok"

\* A recordDailyPrice without the onlyOwner modifier.
recordDailyPriceRevertNoOwnerCheck(sender, asset, price) ==
    CASE ~(asset <= AssetBTC) -> "Invalid asset"
      [] ~(price <= Uint64Max) -> "Price too large"
      [] priceRecorded[asset][currentDay] -> "Price already recorded"
      [] OTHER -> "ok"

\* A recordDailyPrice that lost its "Price too large" check.
recordDailyPriceRevertNoRangeCheck(sender, asset, price) ==
    CASE sender # owner -> "Owner only"
      [] ~(asset <= AssetBTC) -> "Invalid asset"
      [] priceRecorded[asset][currentDay] -> "Price already recorded"
      [] OTHER -> "ok"

\* The modifier and the require statements, in the order the code runs them.
recordDailyPriceRevert(sender, asset, price) ==
    CASE sender # owner -> "Owner only"
      [] ~(asset <= AssetBTC) -> "Invalid asset"
      [] ~(price <= Uint64Max) -> "Price too large"
      [] priceRecorded[asset][currentDay] -> "Price already recorded"
      [] OTHER -> "ok"

\* A recordDailyPrice that keeps one latest day for all the assets.
recordDailyPriceCommitOneLatestDay(asset, price) ==
    LET day == currentDay IN
    /\ dailyPrice' = [dailyPrice EXCEPT ![asset][day] = price]
    /\ priceRecorded' = [priceRecorded EXCEPT ![asset][day] = TRUE]
    /\ latestDay' = [a \in Assets |-> day]
    /\ events' = emit(events, [name |-> "PriceRecorded", asset |-> asset,
                                 day |-> day, price |-> price])
    /\ UNCHANGED <<owner, predictions, points, pointsInitialized, acl, balance>>

\* A recordDailyPrice that files the price under tomorrow.
recordDailyPriceCommitTomorrow(asset, price) ==
    LET day == currentDay + 1 IN
    /\ dailyPrice' = [dailyPrice EXCEPT ![asset][day] = price]
    /\ priceRecorded' = [priceRecorded EXCEPT ![asset][day] = TRUE]
    /\ latestDay' = [latestDay EXCEPT ![asset] = day]
    /\ events' = emit(events, [name |-> "PriceRecorded", asset |-> asset,
                                 day |-> day, price |-> price])
    /\ UNCHANGED <<owner, predictions, points, pointsInitialized, acl, balance>>

\* A recordDailyPrice that sets the asset's latest day on the first record only.
recordDailyPriceCommitFirstLatestDay(asset, price) ==
    LET day == currentDay IN
    /\ dailyPrice' = [dailyPrice EXCEPT ![asset][day] = price]
    /\ priceRecorded' = [priceRecorded EXCEPT ![asset][day] = TRUE]
    /\ latestDay' = [latestDay EXCEPT ![asset] = IF @ = 0 THEN day ELSE @]
    /\ events' = emit(events, [name |-> "PriceRecorded", asset |-> asset,
                                 day |-> day, price |-> price])
    /\ UNCHANGED <<owner, predictions, points, pointsInitialized, acl, balance>>

\* A recordDailyPrice that files the price under yesterday.
recordDailyPriceCommitYesterday(asset, price) ==
    LET day == currentDay - 1 IN
    /\ dailyPrice' = [dailyPrice EXCEPT ![asset][day] = price]
    /\ priceRecorded' = [priceRecorded EXCEPT ![asset][day] = TRUE]
    /\ latestDay' = [latestDay EXCEPT ![asset] = day]
    /\ events' = emit(events, [name |-> "PriceRecorded", asset |-> asset,
                                 day |-> day, price |-> price])
    /\ UNCHANGED <<owner, predictions, points, pointsInitialized, acl, balance>>

\* A recordDailyPrice that files the price under both assets.
recordDailyPriceCommitBothAssets(asset, price) ==
    LET day == currentDay IN
    /\ dailyPrice' = [a \in Assets |-> [dailyPrice[a] EXCEPT ![day] = price]]
    /\ priceRecorded' = [a \in Assets |-> [priceRecorded[a] EXCEPT ![day] = TRUE]]
    /\ latestDay' = [latestDay EXCEPT ![asset] = day]
    /\ events' = emit(events, [name |-> "PriceRecorded", asset |-> asset,
                                 day |-> day, price |-> price])
    /\ UNCHANGED <<owner, predictions, points, pointsInitialized, acl, balance>>

recordDailyPriceCommit(asset, price) ==
    LET day == currentDay IN
    /\ dailyPrice' = [dailyPrice EXCEPT ![asset][day] = price]
    /\ priceRecorded' = [priceRecorded EXCEPT ![asset][day] = TRUE]
    /\ latestDay' = [latestDay EXCEPT ![asset] = day]
    /\ events' = emit(events, [name |-> "PriceRecorded", asset |-> asset,
                                 day |-> day, price |-> price])
    /\ UNCHANGED <<owner, predictions, points, pointsInitialized, acl, balance>>

recordDailyPrice(sender, asset, price) ==
    /\ IF recordDailyPriceRevert(sender, asset, price) = "ok"
       THEN recordDailyPriceCommit(asset, price)
       ELSE UNCHANGED ledger
    /\ UNCHANGED timestamp

\* ----------------------------------------------------------- placePrediction
\* A placePrediction that never calls _initPoints.
initPointsHandleNotCalled(user) == points[user]

\* _initPoints(user): the user's points handle after the call.
initPointsHandle(user) ==
    IF pointsInitialized[user] THEN points[user] ELSE FHE_asEuint128(0)

\* _initPoints(user): the grants after the call.
initPointsAcl(list, user) ==
    IF pointsInitialized[user]
    THEN list
    ELSE FHE_allow(FHE_allow(list, FHE_asEuint128(0), This), FHE_asEuint128(0), user)

\* A placePrediction that looks the key up before it checks the stake.
placePredictionRevertLookupFirst(sender, asset, proofOk, value) ==
    CASE ~(asset <= AssetBTC) -> "Invalid asset"
      [] predictions[sender][asset][currentDay + 1].exists -> "Prediction exists"
      [] ~(value > 0) -> "Stake required"
      [] ~(value <= Uint128Max) -> "Stake too large"
      [] ~proofOk -> "Invalid proof"
      [] OTHER -> "ok"

\* A placePrediction that lost its "Prediction exists" check.
placePredictionRevertNoExistsCheck(sender, asset, proofOk, value) ==
    CASE ~(asset <= AssetBTC) -> "Invalid asset"
      [] ~(value > 0) -> "Stake required"
      [] ~(value <= Uint128Max) -> "Stake too large"
      [] ~proofOk -> "Invalid proof"
      [] OTHER -> "ok"

placePredictionRevert(sender, asset, proofOk, value) ==
    CASE ~(asset <= AssetBTC) -> "Invalid asset"
      [] ~(value > 0) -> "Stake required"
      [] ~(value <= Uint128Max) -> "Stake too large"
      [] predictions[sender][asset][currentDay + 1].exists -> "Prediction exists"
      [] ~proofOk -> "Invalid proof"
      [] OTHER -> "ok"

\* A placePrediction that never sets the exists flag.
placePredictionCommitExistsNotSet(sender, asset, encryptedPrice, encryptedDirection, value) ==
    LET day == currentDay + 1
        price == FHE_fromExternal(encryptedPrice, "euint64")
        direction == FHE_fromExternal(encryptedDirection, "euint8")
        granted == FHE_allow(FHE_allow(FHE_allow(FHE_allow(acl,
                       price, This), direction, This), price, sender), direction, sender)
    IN
    /\ predictions' = [predictions EXCEPT ![sender][asset][day] =
                         [price |-> price, direction |-> direction, stake |-> value,
                          confirmed |-> FALSE, exists |-> FALSE]]
    /\ acl' = initPointsAcl(granted, sender)
    /\ points' = [points EXCEPT ![sender] = initPointsHandle(sender)]
    /\ pointsInitialized' = [pointsInitialized EXCEPT ![sender] = TRUE]
    /\ balance' = balance + value
    /\ events' = emit(events, [name |-> "PredictionPlaced", user |-> sender,
                                 asset |-> asset, day |-> day, stake |-> value])
    /\ UNCHANGED <<owner, dailyPrice, priceRecorded, latestDay>>

\* A placePrediction that takes the stake and leaves the stake field unwritten.
placePredictionCommitStakeNotStored(sender, asset, encryptedPrice, encryptedDirection, value) ==
    LET day == currentDay + 1
        price == FHE_fromExternal(encryptedPrice, "euint64")
        direction == FHE_fromExternal(encryptedDirection, "euint8")
        granted == FHE_allow(FHE_allow(FHE_allow(FHE_allow(acl,
                       price, This), direction, This), price, sender), direction, sender)
    IN
    /\ predictions' = [predictions EXCEPT ![sender][asset][day] =
                         [price |-> price, direction |-> direction, stake |-> 0,
                          confirmed |-> FALSE, exists |-> TRUE]]
    /\ acl' = initPointsAcl(granted, sender)
    /\ points' = [points EXCEPT ![sender] = initPointsHandle(sender)]
    /\ pointsInitialized' = [pointsInitialized EXCEPT ![sender] = TRUE]
    /\ balance' = balance + value
    /\ events' = emit(events, [name |-> "PredictionPlaced", user |-> sender,
                                 asset |-> asset, day |-> day, stake |-> value])
    /\ UNCHANGED <<owner, dailyPrice, priceRecorded, latestDay>>

\* A placePrediction that files the prediction under today.
placePredictionCommitToday(sender, asset, encryptedPrice, encryptedDirection, value) ==
    LET day == currentDay
        price == FHE_fromExternal(encryptedPrice, "euint64")
        direction == FHE_fromExternal(encryptedDirection, "euint8")
        granted == FHE_allow(FHE_allow(FHE_allow(FHE_allow(acl,
                       price, This), direction, This), price, sender), direction, sender)
    IN
    /\ predictions' = [predictions EXCEPT ![sender][asset][day] =
                         [price |-> price, direction |-> direction, stake |-> value,
                          confirmed |-> FALSE, exists |-> TRUE]]
    /\ acl' = initPointsAcl(granted, sender)
    /\ points' = [points EXCEPT ![sender] = initPointsHandle(sender)]
    /\ pointsInitialized' = [pointsInitialized EXCEPT ![sender] = TRUE]
    /\ balance' = balance + value
    /\ events' = emit(events, [name |-> "PredictionPlaced", user |-> sender,
                                 asset |-> asset, day |-> day, stake |-> value])
    /\ UNCHANGED <<owner, dailyPrice, priceRecorded, latestDay>>

placePredictionCommit(sender, asset, encryptedPrice, encryptedDirection, value) ==
    LET day == currentDay + 1
        price == FHE_fromExternal(encryptedPrice, "euint64")
        direction == FHE_fromExternal(encryptedDirection, "euint8")
        granted == FHE_allow(FHE_allow(FHE_allow(FHE_allow(acl,
                       price, This), direction, This), price, sender), direction, sender)
    IN
    /\ predictions' = [predictions EXCEPT ![sender][asset][day] =
                         [price |-> price, direction |-> direction, stake |-> value,
                          confirmed |-> FALSE, exists |-> TRUE]]
    /\ acl' = initPointsAcl(granted, sender)
    /\ points' = [points EXCEPT ![sender] = initPointsHandle(sender)]
    /\ pointsInitialized' = [pointsInitialized EXCEPT ![sender] = TRUE]
    /\ balance' = balance + value
    /\ events' = emit(events, [name |-> "PredictionPlaced", user |-> sender,
                                 asset |-> asset, day |-> day, stake |-> value])
    /\ UNCHANGED <<owner, dailyPrice, priceRecorded, latestDay>>

\* A placePrediction that returns instead of reverting on an existing key: the
\* call succeeds, writes nothing, and the ledger keeps msg.value.
placePredictionReturnsEarly(sender, asset, encryptedPrice, encryptedDirection, proofOk, value) ==
    /\ CASE placePredictionRevert(sender, asset, proofOk, value) = "ok" ->
               placePredictionCommit(sender, asset, encryptedPrice, encryptedDirection, value)
          [] placePredictionRevert(sender, asset, proofOk, value) = "Prediction exists" ->
               /\ balance' = balance + value
               /\ UNCHANGED <<owner, dailyPrice, priceRecorded, latestDay, predictions,
                              points, pointsInitialized, acl, events>>
          [] OTHER -> UNCHANGED ledger
    /\ UNCHANGED timestamp

placePrediction(sender, asset, encryptedPrice, encryptedDirection, proofOk, value) ==
    /\ IF placePredictionRevert(sender, asset, proofOk, value) = "ok"
       THEN placePredictionCommit(sender, asset, encryptedPrice, encryptedDirection, value)
       ELSE UNCHANGED ledger
    /\ UNCHANGED timestamp

\* --------------------------------------------------------- confirmPrediction
\* A confirmPrediction that lost its "Prediction missing" check.
confirmPredictionRevertNoExistsCheck(sender, asset, day) ==
    CASE ~(asset <= AssetBTC) -> "Invalid asset"
      [] ~(currentDay >= day) -> "Too early"
      [] ~priceRecorded[asset][day] -> "Price not recorded"
      [] predictions[sender][asset][day].confirmed -> "Already confirmed"
      [] OTHER -> "ok"

\* A confirmPrediction that lost its "Already confirmed" check.
confirmPredictionRevertNoConfirmedCheck(sender, asset, day) ==
    CASE ~(asset <= AssetBTC) -> "Invalid asset"
      [] ~(currentDay >= day) -> "Too early"
      [] ~priceRecorded[asset][day] -> "Price not recorded"
      [] ~predictions[sender][asset][day].exists -> "Prediction missing"
      [] OTHER -> "ok"

\* A confirmPrediction that looks the prediction up before it checks the day
\* and the price.
confirmPredictionRevertLookupFirst(sender, asset, day) ==
    CASE ~(asset <= AssetBTC) -> "Invalid asset"
      [] ~predictions[sender][asset][day].exists -> "Prediction missing"
      [] predictions[sender][asset][day].confirmed -> "Already confirmed"
      [] ~(currentDay >= day) -> "Too early"
      [] ~priceRecorded[asset][day] -> "Price not recorded"
      [] OTHER -> "ok"

\* A confirmPrediction that lost its "Too early" check.
confirmPredictionRevertNoDayCheck(sender, asset, day) ==
    CASE ~(asset <= AssetBTC) -> "Invalid asset"
      [] ~priceRecorded[asset][day] -> "Price not recorded"
      [] ~predictions[sender][asset][day].exists -> "Prediction missing"
      [] predictions[sender][asset][day].confirmed -> "Already confirmed"
      [] OTHER -> "ok"

\* A confirmPrediction that lost its "Price not recorded" check.
confirmPredictionRevertNoPriceCheck(sender, asset, day) ==
    CASE ~(asset <= AssetBTC) -> "Invalid asset"
      [] ~(currentDay >= day) -> "Too early"
      [] ~predictions[sender][asset][day].exists -> "Prediction missing"
      [] predictions[sender][asset][day].confirmed -> "Already confirmed"
      [] OTHER -> "ok"

\* A confirmPrediction that accepts a key on its own day only.
confirmPredictionRevertSameDayOnly(sender, asset, day) ==
    CASE ~(asset <= AssetBTC) -> "Invalid asset"
      [] ~(currentDay = day) -> "Too early"
      [] ~priceRecorded[asset][day] -> "Price not recorded"
      [] ~predictions[sender][asset][day].exists -> "Prediction missing"
      [] predictions[sender][asset][day].confirmed -> "Already confirmed"
      [] OTHER -> "ok"

\* A confirmPrediction that waits for the day after the prediction's day.
confirmPredictionRevertDayAfter(sender, asset, day) ==
    CASE ~(asset <= AssetBTC) -> "Invalid asset"
      [] ~(currentDay > day) -> "Too early"
      [] ~priceRecorded[asset][day] -> "Price not recorded"
      [] ~predictions[sender][asset][day].exists -> "Prediction missing"
      [] predictions[sender][asset][day].confirmed -> "Already confirmed"
      [] OTHER -> "ok"

confirmPredictionRevert(sender, asset, day) ==
    CASE ~(asset <= AssetBTC) -> "Invalid asset"
      [] ~(currentDay >= day) -> "Too early"
      [] ~priceRecorded[asset][day] -> "Price not recorded"
      [] ~predictions[sender][asset][day].exists -> "Prediction missing"
      [] predictions[sender][asset][day].confirmed -> "Already confirmed"
      [] OTHER -> "ok"

\* A settlement that also rewards "greater" when the price did not move.
rewardTieCounts(prediction, price) ==
    LET actual == FHE_asEuint64(price % (Uint64Max + 1))
        isGreater == FHE_or(FHE_gt(actual, prediction.price),
                            FHE_eq(actual, prediction.price))
        isLess == FHE_lt(actual, prediction.price)
        dirGreater == FHE_eq(prediction.direction, FHE_asEuint8(1))
        dirLess == FHE_eq(prediction.direction, FHE_asEuint8(2))
        isCorrect == FHE_or(FHE_and(dirGreater, isGreater), FHE_and(dirLess, isLess))
    IN FHE_select(isCorrect,
                  FHE_asEuint128(prediction.stake % (Uint128Max + 1)),
                  FHE_asEuint128(0))

\* A settlement that rewards the stake whatever the recorded price.
rewardIgnoresOutcome(prediction, price) ==
    FHE_asEuint128(prediction.stake % (Uint128Max + 1))

\* The settlement: the encrypted reward of a stored prediction against the
\* recorded plaintext price.
reward(prediction, price) ==
    LET actual == FHE_asEuint64(price % (Uint64Max + 1))
        isGreater == FHE_gt(actual, prediction.price)
        isLess == FHE_lt(actual, prediction.price)
        dirGreater == FHE_eq(prediction.direction, FHE_asEuint8(1))
        dirLess == FHE_eq(prediction.direction, FHE_asEuint8(2))
        isCorrect == FHE_or(FHE_and(dirGreater, isGreater), FHE_and(dirLess, isLess))
    IN FHE_select(isCorrect,
                  FHE_asEuint128(prediction.stake % (Uint128Max + 1)),
                  FHE_asEuint128(0))

\* A confirmPrediction that credits the reward to the owner's account.
confirmPredictionCommitCreditsOwner(sender, asset, day) ==
    LET prediction == predictions[sender][asset][day]
        sum == FHE_add(points[owner], reward(prediction, dailyPrice[asset][day]))
    IN
    /\ points' = [points EXCEPT ![owner] = sum]
    /\ acl' = FHE_allow(FHE_allow(acl, sum, This), sum, owner)
    /\ predictions' = [predictions EXCEPT ![sender][asset][day].confirmed = TRUE]
    /\ events' = emit(events, [name |-> "PredictionConfirmed", user |-> sender,
                                 asset |-> asset, day |-> day])
    /\ UNCHANGED <<owner, dailyPrice, priceRecorded, latestDay, pointsInitialized,
                   balance>>

\* A confirmPrediction that grants the new points handle to the contract only.
confirmPredictionCommitNoUserGrant(sender, asset, day) ==
    LET prediction == predictions[sender][asset][day]
        sum == FHE_add(points[sender], reward(prediction, dailyPrice[asset][day]))
    IN
    /\ points' = [points EXCEPT ![sender] = sum]
    /\ acl' = FHE_allow(acl, sum, This)
    /\ predictions' = [predictions EXCEPT ![sender][asset][day].confirmed = TRUE]
    /\ events' = emit(events, [name |-> "PredictionConfirmed", user |-> sender,
                                 asset |-> asset, day |-> day])
    /\ UNCHANGED <<owner, dailyPrice, priceRecorded, latestDay, pointsInitialized,
                   balance>>

\* A confirmPrediction that emits no event.
confirmPredictionCommitNoEvent(sender, asset, day) ==
    LET prediction == predictions[sender][asset][day]
        sum == FHE_add(points[sender], reward(prediction, dailyPrice[asset][day]))
    IN
    /\ points' = [points EXCEPT ![sender] = sum]
    /\ acl' = FHE_allow(FHE_allow(acl, sum, This), sum, sender)
    /\ predictions' = [predictions EXCEPT ![sender][asset][day].confirmed = TRUE]
    /\ UNCHANGED <<owner, dailyPrice, priceRecorded, latestDay, pointsInitialized,
                   balance, events>>

\* A confirmPrediction that pays the stake back to the caller.
confirmPredictionCommitPaysOut(sender, asset, day) ==
    LET prediction == predictions[sender][asset][day]
        sum == FHE_add(points[sender], reward(prediction, dailyPrice[asset][day]))
    IN
    /\ points' = [points EXCEPT ![sender] = sum]
    /\ acl' = FHE_allow(FHE_allow(acl, sum, This), sum, sender)
    /\ predictions' = [predictions EXCEPT ![sender][asset][day].confirmed = TRUE]
    /\ balance' = balance - prediction.stake
    /\ events' = emit(events, [name |-> "PredictionConfirmed", user |-> sender,
                                 asset |-> asset, day |-> day])
    /\ UNCHANGED <<owner, dailyPrice, priceRecorded, latestDay, pointsInitialized>>

confirmPredictionCommit(sender, asset, day) ==
    LET prediction == predictions[sender][asset][day]
        sum == FHE_add(points[sender], reward(prediction, dailyPrice[asset][day]))
    IN
    /\ points' = [points EXCEPT ![sender] = sum]
    /\ acl' = FHE_allow(FHE_allow(acl, sum, This), sum, sender)
    /\ predictions' = [predictions EXCEPT ![sender][asset][day].confirmed = TRUE]
    /\ events' = emit(events, [name |-> "PredictionConfirmed", user |-> sender,
                                 asset |-> asset, day |-> day])
    /\ UNCHANGED <<owner, dailyPrice, priceRecorded, latestDay, pointsInitialized,
                   balance>>

confirmPrediction(sender, asset, day) ==
    /\ IF confirmPredictionRevert(sender, asset, day) = "ok"
       THEN confirmPredictionCommit(sender, asset, day)
       ELSE UNCHANGED ledger
    /\ UNCHANGED timestamp

\* --------------------------------------------- the calls as state transformers
\* The state as one value, and each external function as the function from the
\* state before a call to the call's outcome: the revert reason ("ok" when the
\* call commits) and the state after it (the state before it when it reverts).
State ==
    [timestamp |-> timestamp, owner |-> owner, dailyPrice |-> dailyPrice,
     priceRecorded |-> priceRecorded, latestDay |-> latestDay,
     predictions |-> predictions, points |-> points,
     pointsInitialized |-> pointsInitialized, acl |-> acl, balance |-> balance,
     events |-> events]

recordDailyPriceCall(s, sender, asset, price) ==
    LET day == s.timestamp \div OneDay
        reason ==
            CASE sender # s.owner -> "Owner only"
              [] ~(asset <= AssetBTC) -> "Invalid asset"
              [] ~(price <= Uint64Max) -> "Price too large"
              [] s.priceRecorded[asset][day] -> "Price already recorded"
              [] OTHER -> "ok"
    IN
    IF reason # "ok"
    THEN [reason |-> reason, state |-> s]
    ELSE [reason |-> "ok",
          state |-> [s EXCEPT !.dailyPrice[asset][day] = price,
                              !.priceRecorded[asset][day] = TRUE,
                              !.latestDay[asset] = day,
                              !.events = emit(@, [name |-> "PriceRecorded",
                                                  asset |-> asset, day |-> day,
                                                  price |-> price])]]

placePredictionCall(s, sender, asset, encryptedPrice, encryptedDirection, proofOk, value) ==
    LET day == s.timestamp \div OneDay + 1
        reason ==
            CASE ~(asset <= AssetBTC) -> "Invalid asset"
              [] ~(value > 0) -> "Stake required"
              [] ~(value <= Uint128Max) -> "Stake too large"
              [] s.predictions[sender][asset][day].exists -> "Prediction exists"
              [] ~proofOk -> "Invalid proof"
              [] OTHER -> "ok"
        price == FHE_fromExternal(encryptedPrice, "euint64")
        direction == FHE_fromExternal(encryptedDirection, "euint8")
        granted == FHE_allow(FHE_allow(FHE_allow(FHE_allow(s.acl,
                       price, This), direction, This), price, sender), direction, sender)
        zero == FHE_asEuint128(0)
    IN
    IF reason # "ok"
    THEN [reason |-> reason, state |-> s]
    ELSE [reason |-> "ok",
          state |-> [s EXCEPT !.predictions[sender][asset][day] =
                                 [price |-> price, direction |-> direction,
                                  stake |-> value, confirmed |-> FALSE,
                                  exists |-> TRUE],
                              !.acl = IF s.pointsInitialized[sender]
                                      THEN granted
                                      ELSE FHE_allow(FHE_allow(granted, zero, This),
                                                     zero, sender),
                              !.points[sender] =
                                 IF s.pointsInitialized[sender] THEN @ ELSE zero,
                              !.pointsInitialized[sender] = TRUE,
                              !.balance = @ + value,
                              !.events = emit(@, [name |-> "PredictionPlaced",
                                                  user |-> sender, asset |-> asset,
                                                  day |-> day, stake |-> value])]]

\* A confirmPrediction that decrypts the reward and logs whether it was won.
confirmPredictionCallLogsOutcome(s, sender, asset, day) ==
    LET reason ==
            CASE ~(asset <= AssetBTC) -> "Invalid asset"
              [] ~(s.timestamp \div OneDay >= day) -> "Too early"
              [] ~s.priceRecorded[asset][day] -> "Price not recorded"
              [] ~s.predictions[sender][asset][day].exists -> "Prediction missing"
              [] s.predictions[sender][asset][day].confirmed -> "Already confirmed"
              [] OTHER -> "ok"
        won == reward(s.predictions[sender][asset][day], s.dailyPrice[asset][day])
        sum == FHE_add(s.points[sender], won)
    IN
    IF reason # "ok"
    THEN [reason |-> reason, state |-> s]
    ELSE [reason |-> "ok",
          state |-> [s EXCEPT !.points[sender] = sum,
                              !.acl = FHE_allow(FHE_allow(@, sum, This), sum, sender),
                              !.predictions[sender][asset][day].confirmed = TRUE,
                              !.events = emit(@, [name |-> "PredictionConfirmed",
                                                  user |-> sender, asset |-> asset,
                                                  day |-> day,
                                                  won |-> Decrypt(won) > 0])]]

\* A confirmPrediction that credits the reward to the owner's account.
confirmPredictionCallCreditsOwner(s, sender, asset, day) ==
    LET reason ==
            CASE ~(asset <= AssetBTC) -> "Invalid asset"
              [] ~(s.timestamp \div OneDay >= day) -> "Too early"
              [] ~s.priceRecorded[asset][day] -> "Price not recorded"
              [] ~s.predictions[sender][asset][day].exists -> "Prediction missing"
              [] s.predictions[sender][asset][day].confirmed -> "Already confirmed"
              [] OTHER -> "ok"
        sum == FHE_add(s.points[s.owner],
                       reward(s.predictions[sender][asset][day], s.dailyPrice[asset][day]))
    IN
    IF reason # "ok"
    THEN [reason |-> reason, state |-> s]
    ELSE [reason |-> "ok",
          state |-> [s EXCEPT !.points[s.owner] = sum,
                              !.acl = FHE_allow(FHE_allow(@, sum, This), sum, s.owner),
                              !.predictions[sender][asset][day].confirmed = TRUE,
                              !.events = emit(@, [name |-> "PredictionConfirmed",
                                                  user |-> sender, asset |-> asset,
                                                  day |-> day])]]

confirmPredictionCall(s, sender, asset, day) ==
    LET reason ==
            CASE ~(asset <= AssetBTC) -> "Invalid asset"
              [] ~(s.timestamp \div OneDay >= day) -> "Too early"
              [] ~s.priceRecorded[asset][day] -> "Price not recorded"
              [] ~s.predictions[sender][asset][day].exists -> "Prediction missing"
              [] s.predictions[sender][asset][day].confirmed -> "Already confirmed"
              [] OTHER -> "ok"
        sum == FHE_add(s.points[sender],
                       reward(s.predictions[sender][asset][day], s.dailyPrice[asset][day]))
    IN
    IF reason # "ok"
    THEN [reason |-> reason, state |-> s]
    ELSE [reason |-> "ok",
          state |-> [s EXCEPT !.points[sender] = sum,
                              !.acl = FHE_allow(FHE_allow(@, sum, This), sum, sender),
                              !.predictions[sender][asset][day].confirmed = TRUE,
                              !.events = emit(@, [name |-> "PredictionConfirmed",
                                                  user |-> sender, asset |-> asset,
                                                  day |-> day])]]

\* A call is a record of the function's name and its arguments.
Execute(s, call) ==
    CASE call.fn = "recordDailyPrice" ->
            recordDailyPriceCall(s, call.sender, call.asset, call.price)
      [] call.fn = "placePrediction" ->
            placePredictionCall(s, call.sender, call.asset, call.encryptedPrice,
                                call.encryptedDirection, call.proofOk, call.value)
      [] call.fn = "confirmPrediction" ->
            confirmPredictionCall(s, call.sender, call.asset, call.day)

\* The calls a user can make, and the calls of recordDailyPrice.
UserCalls(sender) ==
    {[fn |-> "placePrediction", sender |-> sender, asset |-> asset,
      encryptedPrice |-> encryptedPrice, encryptedDirection |-> encryptedDirection,
      proofOk |-> proofOk, value |-> value] :
        asset \in AssetIds, encryptedPrice \in ExternalPrices(sender),
        encryptedDirection \in ExternalDirections(sender), proofOk \in BOOLEAN,
        value \in StakeValues}
    \cup {[fn |-> "confirmPrediction", sender |-> sender, asset |-> asset, day |-> day] :
             asset \in AssetIds, day \in Days}

RecordCalls ==
    {[fn |-> "recordDailyPrice", sender |-> sender, asset |-> asset, price |-> price] :
        sender \in Users, asset \in AssetIds, price \in RecordPrices}

\* ------------------------------------------------------------- specification

\* The environment: any caller, any arguments; at most MaxCalls calls succeed.
Next ==
    \/ Tick
    \/ \E sender \in Users, asset \in AssetIds, price \in RecordPrices :
          /\ recordDailyPriceRevert(sender, asset, price) = "ok" => Calls < MaxCalls
          /\ recordDailyPrice(sender, asset, price)
    \/ \E sender \in Users, asset \in AssetIds, proofOk \in BOOLEAN,
          value \in StakeValues :
       \E encryptedPrice \in ExternalPrices(sender),
          encryptedDirection \in ExternalDirections(sender) :
          /\ placePredictionRevert(sender, asset, proofOk, value) = "ok" => Calls < MaxCalls
          /\ placePrediction(sender, asset, encryptedPrice, encryptedDirection, proofOk, value)
    \/ \E sender \in Users, asset \in AssetIds, day \in Days :
          /\ confirmPredictionRevert(sender, asset, day) = "ok" => Calls < MaxCalls
          /\ confirmPrediction(sender, asset, day)

Spec == Init /\ [][Next]_vars

\* The settlement scenario: alice places one prediction on asset ETH with any
\* predicted price and direction, the owner records the prices of ETH, alice
\* confirms.
SettlePrices == {1900, 2000, 2100}
SettleDirections == 0..3
SettleStakes == {1, 2}
SettleRecordPrices == {2000, 2100}

NextSettle ==
    \/ Tick
    \/ \E price \in SettleRecordPrices : recordDailyPrice(owner, 0, price)
    \/ \E p \in SettlePrices, dir \in SettleDirections, value \in SettleStakes :
          /\ \A d \in Days : ~predictions["alice"][0][d].exists
          /\ placePrediction("alice", 0, [by |-> "alice", v |-> p],
                             [by |-> "alice", v |-> dir], TRUE, value)
    \/ \E day \in Days : confirmPrediction("alice", 0, day)

SpecSettle == Init /\ [][NextSettle]_vars

\* The accrual scenario: alice stakes on both assets, with stakes up to the
\* largest the contract accepts, on predictions "above 2050"; the owner
\* records the prices; alice confirms.
AccrueStakes == {1, Uint128Max}

NextAccrue ==
    \/ Tick
    \/ \E asset \in Assets, price \in SettleRecordPrices :
          recordDailyPrice(owner, asset, price)
    \/ \E asset \in Assets, value \in AccrueStakes :
       \E encryptedPrice \in ExternalPrices("alice"),
          encryptedDirection \in ExternalDirections("alice") :
          placePrediction("alice", asset, encryptedPrice, encryptedDirection, TRUE, value)
    \/ \E asset \in Assets, day \in Days :
          confirmPrediction("alice", asset, day)

SpecAccrue == Init /\ [][NextAccrue]_vars

\* The two-user scenario: each user places one prediction, on either asset;
\* the owner records the prices; the users confirm.
NextPair ==
    \/ Tick
    \/ \E asset \in Assets : recordDailyPrice(owner, asset, 2100)
    \/ \E sender \in Users, asset \in Assets :
       \E encryptedPrice \in ExternalPrices(sender),
          encryptedDirection \in ExternalDirections(sender) :
          /\ \A a \in Assets, d \in Days : ~predictions[sender][a][d].exists
          /\ placePrediction(sender, asset, encryptedPrice, encryptedDirection, TRUE, 1)
    \/ \E sender \in Users, asset \in Assets, day \in Days :
          confirmPrediction(sender, asset, day)

SpecPair == Init /\ [][NextPair]_vars

\* ===================================================================== claims
\* In the step properties below, a step that leaves the whole ledger unchanged
\* (a reverted call, or the clock alone moving) is the first disjunct.
\* The PriceRecorded events the log holds for a key.
PriceRecordedCount(asset, day) ==
    BagCardinality([e \in {x \in BagToSet(events) :
                              /\ x.name = "PriceRecorded"
                              /\ x.asset = asset
                              /\ x.day = day} |-> events[e]])

\* In-range prices: the ends of the range and the prices the owner submits.
InRangePrices == {price \in RecordPrices \cup {0, Uint64Max} : price <= Uint64Max}

\* C1: for every (asset, day) recordDailyPrice succeeds at most once: a recorded
\* key stays recorded and its price never changes in any step, the log holds at
\* most one PriceRecorded per key, and a further call by the owner on a recorded
\* key reverts with "Price already recorded" whatever in-range price it passes.
C1_PriceWriteOnce ==
    /\ [](\A asset \in Assets :
            /\ \A day \in Days : PriceRecordedCount(asset, day) <= 1
            /\ priceRecorded[asset][currentDay] =>
                  \A price \in InRangePrices :
                     recordDailyPriceRevert(owner, asset, price) = "Price already recorded")
    /\ [][\/ UNCHANGED ledger
          \/ \A asset \in Assets, day \in Days :
                priceRecorded[asset][day] =>
                   /\ priceRecorded'[asset][day]
                   /\ dailyPrice'[asset][day] = dailyPrice[asset][day]]_vars

\* C1 witness: a price is recorded for today, and the owner could now submit a
\* different in-range price for the same key.
C1_Witness ==
    \E asset \in Assets, price \in RecordPrices :
       /\ priceRecorded[asset][currentDay]
       /\ price <= Uint64Max
       /\ price # dailyPrice[asset][currentDay]
       /\ PriceRecordedCount(asset, currentDay) = 1
       /\ recordDailyPriceRevert(owner, asset, price) = "Price already recorded"

Keys == Users \X Assets \X Days
PredictionAt(k) == predictions[k[1]][k[2]][k[3]]

\* The events of one name the log holds for a prediction key.
PredictionEventCount(name, k) ==
    BagCardinality([e \in {x \in BagToSet(events) :
                              /\ x.name = name
                              /\ x.user = k[1]
                              /\ x.asset = k[2]
                              /\ x.day = k[3]} |-> events[e]])

\* C2: every (user, asset, day) key only moves Absent -> Open -> Confirmed:
\* confirmed implies exists in every state, no step clears exists or confirmed,
\* no step takes a key from Absent to Confirmed, and each of the two
\* transitions happens at most once (the log holds at most one PredictionPlaced
\* and one PredictionConfirmed per key).
C2_PredictionLifecycle ==
    /\ [](\A k \in Keys :
            /\ PredictionAt(k).confirmed => PredictionAt(k).exists
            /\ PredictionEventCount("PredictionPlaced", k) <= 1
            /\ PredictionEventCount("PredictionConfirmed", k) <= 1)
    /\ [][\/ UNCHANGED ledger
          \/ \A k \in Keys :
                /\ PredictionAt(k).exists => PredictionAt(k).exists'
                /\ PredictionAt(k).confirmed => PredictionAt(k).confirmed'
                /\ ~PredictionAt(k).exists => ~PredictionAt(k).confirmed']_vars

\* C2 witness: a key that went through both transitions.
C2_Witness ==
    \E k \in Keys :
       /\ PredictionAt(k).exists
       /\ PredictionAt(k).confirmed
       /\ PredictionEventCount("PredictionPlaced", k) = 1
       /\ PredictionEventCount("PredictionConfirmed", k) = 1

\* The keys of a user that a step takes from unconfirmed to confirmed.
NewlyConfirmed(user) ==
    {k \in Keys : k[1] = user /\ ~PredictionAt(k).confirmed /\ PredictionAt(k).confirmed'}

\* C3: a confirmed key cannot be confirmed again (the call reverts with
\* "Already confirmed"), and a user's points handle changes only in a step
\* that initialises the account or takes exactly one of the user's keys from
\* unconfirmed to confirmed: no prediction's reward is ever added twice.
C3_ConfirmOnce ==
    /\ [](\A k \in Keys :
            PredictionAt(k).confirmed =>
               confirmPredictionRevert(k[1], k[2], k[3]) = "Already confirmed")
    /\ [][\/ UNCHANGED ledger
          \/ \A user \in Users :
                /\ points'[user] # points[user] =>
                      \/ ~pointsInitialized[user] /\ pointsInitialized'[user]
                      \/ Cardinality(NewlyConfirmed(user)) = 1
                /\ \A k \in NewlyConfirmed(user) :
                      /\ confirmPredictionRevert(k[1], k[2], k[3]) = "ok"
                      /\ Decrypt(points'[user]) =
                            (Decrypt(points[user])
                             + Decrypt(reward(PredictionAt(k), dailyPrice[k[2]][k[3]])))
                            % (Uint128Max + 1)]_vars

\* C3 witness: a rewarded, confirmed prediction whose owner calls confirm again.
C3_Witness ==
    \E k \in Keys :
       /\ PredictionAt(k).confirmed
       /\ Decrypt(points[k[1]]) = PredictionAt(k).stake
       /\ confirmPredictionRevert(k[1], k[2], k[3]) = "Already confirmed"

\* What the settlement of key k must add, from the decrypted prediction.
ExpectedReward(k) ==
    LET p == Decrypt(PredictionAt(k).price)
        dir == Decrypt(PredictionAt(k).direction)
        actual == dailyPrice[k[2]][k[3]]
    IN IF (dir = 1 /\ actual > p) \/ (dir = 2 /\ actual < p)
       THEN PredictionAt(k).stake
       ELSE 0

\* C4: a successful confirmPrediction adds to the caller's decrypted points
\* exactly the stake when (direction = 1 and actual > predicted) or
\* (direction = 2 and actual < predicted), and exactly 0 otherwise (a tie, or a
\* direction outside {1, 2}).
C4_SettlementCorrect ==
    [][\A user \in Users : \A k \in NewlyConfirmed(user) :
          Decrypt(points'[user]) = Decrypt(points[user]) + ExpectedReward(k)]_vars

\* C4 witness: direction 1, predicted 1900, actual 2000, stake 2 settled: the
\* points are the stake.
C4_Witness ==
    \E k \in Keys :
       /\ PredictionAt(k).confirmed
       /\ Decrypt(PredictionAt(k).price) = 1900
       /\ Decrypt(PredictionAt(k).direction) = 1
       /\ dailyPrice[k[2]][k[3]] = 2000
       /\ PredictionAt(k).stake = 2
       /\ Decrypt(points[k[1]]) = 2

\* C5: while the target day (currentDay + 1) is unchanged, a second
\* placePrediction by the same caller for the same asset reverts with
\* "Prediction exists" for every valid stake and proof, and no step changes the
\* handles or the stake of an existing prediction; the reverted call leaves the
\* whole ledger (flags and custody included) as it was: no step that changes
\* the ledger is the step of such a call.
C5_OnePredictionPerDay ==
    /\ [](\A user \in Users, asset \in Assets :
            predictions[user][asset][currentDay + 1].exists =>
               \A proofOk \in BOOLEAN, value \in 1..Uint128Max :
                  placePredictionRevert(user, asset, proofOk, value) = "Prediction exists")
    /\ [][\/ UNCHANGED ledger
          \/ /\ \A k \in Keys :
                   PredictionAt(k).exists =>
                      /\ PredictionAt(k).price' = PredictionAt(k).price
                      /\ PredictionAt(k).direction' = PredictionAt(k).direction
                      /\ PredictionAt(k).stake' = PredictionAt(k).stake
             /\ \A user \in Users, asset \in Assets :
                   predictions[user][asset][currentDay + 1].exists =>
                      \A encryptedPrice \in ExternalPrices(user),
                         encryptedDirection \in ExternalDirections(user),
                         proofOk \in BOOLEAN, value \in StakeValues :
                         ~placePrediction(user, asset, encryptedPrice,
                                          encryptedDirection, proofOk, value)]_vars

\* C5 witness: a prediction is stored for tomorrow and its owner could place
\* another one, with another stake, for the same asset.
C5_Witness ==
    \E user \in Users, asset \in Assets, value \in 1..Uint128Max :
       /\ predictions[user][asset][currentDay + 1].exists
       /\ predictions[user][asset][currentDay + 1].stake # value
       /\ balance = predictions[user][asset][currentDay + 1].stake
       /\ placePredictionRevert(user, asset, TRUE, value) = "Prediction exists"

\* C6: a call that reverts, whatever the reason, leaves the whole ledger
\* unchanged (storage, custody, grants and the log): a step that changes the
\* ledger is not the step of any call whose outcome is a revert.
C6_RevertLeavesLedger ==
    [][\/ UNCHANGED ledger
       \/ /\ \A sender \in Users, asset \in AssetIds, price \in RecordPrices :
                recordDailyPriceRevert(sender, asset, price) # "ok" =>
                   ~recordDailyPrice(sender, asset, price)
          /\ \A sender \in Users, asset \in AssetIds, proofOk \in BOOLEAN,
                value \in StakeValues :
                placePredictionRevert(sender, asset, proofOk, value) # "ok" =>
                   \A encryptedPrice \in ExternalPrices(sender),
                      encryptedDirection \in ExternalDirections(sender) :
                      ~placePrediction(sender, asset, encryptedPrice,
                                       encryptedDirection, proofOk, value)
          /\ \A sender \in Users, asset \in AssetIds, day \in Days :
                confirmPredictionRevert(sender, asset, day) # "ok" =>
                   ~confirmPrediction(sender, asset, day)]_vars

\* The revert reasons the calls of the environment can meet in the current state.
RevertReasons ==
    ({recordDailyPriceRevert(c[1], c[2], c[3]) : c \in Users \X AssetIds \X RecordPrices}
     \cup {placePredictionRevert(c[1], c[2], c[3], c[4]) :
              c \in Users \X AssetIds \X BOOLEAN \X StakeValues}
     \cup {confirmPredictionRevert(c[1], c[2], c[3]) : c \in Users \X AssetIds \X Days})
    \ {"ok"}

\* C6 witness: after three successful calls, a state in which calls can revert
\* for eleven different reasons.
C6_Witness ==
    /\ Calls = 3
    /\ Cardinality(RevertReasons) >= 11

\* C7: with a valid asset, confirmPrediction reverts with "Too early" whenever
\* day > currentDay and otherwise with "Price not recorded" whenever the key
\* has no recorded price, whatever the state of the caller's prediction;
\* "Prediction missing" and "Already confirmed" are reported only when the day
\* has come and the price is recorded.
C7_ConfirmCheckOrder ==
    \A sender \in Users, asset \in Assets, day \in Days :
       LET result == confirmPredictionRevert(sender, asset, day) IN
       /\ day > currentDay => result = "Too early"
       /\ (day <= currentDay /\ ~priceRecorded[asset][day]) =>
             result = "Price not recorded"
       /\ result \in {"Prediction missing", "Already confirmed"} =>
             (day <= currentDay /\ priceRecorded[asset][day])
       /\ (day <= currentDay /\ priceRecorded[asset][day]) =>
             result = (IF ~predictions[sender][asset][day].exists
                       THEN "Prediction missing"
                       ELSE IF predictions[sender][asset][day].confirmed
                            THEN "Already confirmed"
                            ELSE "ok")

\* C7 witness: an Open prediction whose day has come without a recorded price
\* (the call reverts with "Price not recorded"), next to an Open prediction of
\* a day still to come (the call reverts with "Too early").
C7_Witness ==
    \E k1 \in Keys, k2 \in Keys :
       /\ PredictionAt(k1).exists /\ ~PredictionAt(k1).confirmed
       /\ k1[3] <= currentDay /\ ~priceRecorded[k1[2]][k1[3]]
       /\ confirmPredictionRevert(k1[1], k1[2], k1[3]) = "Price not recorded"
       /\ PredictionAt(k2).exists /\ k2[3] > currentDay
       /\ confirmPredictionRevert(k2[1], k2[2], k2[3]) = "Too early"

\* C8: recordDailyPrice by anyone but the owner reverts with "Owner only"
\* whatever the asset and the price; the owner is the deployer and no step
\* changes it; every step that records a price is a call of the owner.
C8_OwnerOnly ==
    /\ [](/\ owner = "deployer"
          /\ \A sender \in Users \ {owner}, asset \in AssetIds, price \in RecordPrices :
                recordDailyPriceRevert(sender, asset, price) = "Owner only")
    /\ [][/\ owner' = owner
          /\ (priceRecorded' # priceRecorded \/ dailyPrice' # dailyPrice) =>
                \E asset \in Assets, price \in RecordPrices :
                   /\ recordDailyPriceRevert(owner, asset, price) = "ok"
                   /\ recordDailyPrice(owner, asset, price)]_vars

\* C8 witness: the owner has recorded a price, and alice's call on the other
\* asset reverts with "Owner only".
C8_Witness ==
    \E asset \in Assets, other \in Assets :
       /\ priceRecorded[asset][currentDay]
       /\ ~priceRecorded[other][currentDay]
       /\ PriceRecordedCount(asset, currentDay) = 1
       /\ recordDailyPriceRevert("alice", other, 2000) = "Owner only"

\* C9: a step that creates a prediction creates it under currentDay + 1 and
\* logs that day; so every existing prediction's day is at most currentDay + 1.
C9_AlwaysTomorrow ==
    /\ [](\A k \in Keys : PredictionAt(k).exists => k[3] <= currentDay + 1)
    /\ [][\/ UNCHANGED ledger
          \/ \A k \in Keys :
                (~PredictionAt(k).exists /\ PredictionAt(k).exists') =>
                   /\ k[3] = currentDay + 1
                   /\ k[3] > currentDay'
                   /\ PredictionEventCount("PredictionPlaced", k)' = 1]_vars

\* C9 witness: a prediction placed yesterday for today next to one placed
\* today for tomorrow.
C9_Witness ==
    \E k1 \in Keys, k2 \in Keys :
       /\ PredictionAt(k1).exists /\ k1[3] = currentDay
       /\ PredictionAt(k2).exists /\ k2[3] = currentDay + 1

\* C10: a step that records a price records it under currentDay; so a recorded
\* day is never in the future, and a day that passed unrecorded stays
\* unrecorded in every later step.
C10_NoBackfill ==
    /\ [](\A asset \in Assets, day \in Days :
            priceRecorded[asset][day] => day <= currentDay)
    /\ [][\/ UNCHANGED ledger
          \/ \A asset \in Assets, day \in Days :
                /\ (~priceRecorded[asset][day] /\ priceRecorded'[asset][day]) =>
                      day = currentDay
                /\ (day < currentDay /\ ~priceRecorded[asset][day]) =>
                      (~priceRecorded'[asset][day] /\ dailyPrice'[asset][day] = 0)]_vars

\* C10 witness: yesterday passed without a price for an asset whose price of
\* today is recorded.
C10_Witness ==
    \E asset \in Assets :
       /\ currentDay - 1 >= Genesis \div OneDay
       /\ ~priceRecorded[asset][currentDay - 1]
       /\ priceRecorded[asset][currentDay]
\* C11: a points account, once initialized, changes only by the addition a
\* confirmation makes (a later placement leaves it as it is), and its decrypted
\* value never decreases.
C11_PointsOnlyGrow ==
    [][\/ UNCHANGED ledger
       \/ \A user \in Users :
             pointsInitialized[user] =>
                /\ pointsInitialized'[user]
                /\ points'[user] # points[user] =>
                      /\ Cardinality(NewlyConfirmed(user)) = 1
                      /\ points'[user].op = "add"
                      /\ points'[user].lhs = points[user]
                /\ Decrypt(points'[user]) >= Decrypt(points[user])]_vars

\* getPoints(user)
getPoints(user) == points[user]

\* The user has placed a prediction: the log holds a PredictionPlaced of theirs.
HasPlaced(user) ==
    \E e \in BagToSet(events) : e.name = "PredictionPlaced" /\ e.user = user

\* C12: getPoints returns the zero handle exactly while the user has never
\* placed a prediction; the first placement makes it a handle that is not the
\* zero handle and decrypts to 0; it never goes back to the zero handle.
C12_PointsSentinel ==
    /\ [](\A user \in Users : (getPoints(user) = ZeroHandle) <=> ~HasPlaced(user))
    /\ [][\/ UNCHANGED ledger
          \/ \A user \in Users :
                /\ (~HasPlaced(user) /\ HasPlaced(user)') =>
                      /\ getPoints(user)' # ZeroHandle
                      /\ Decrypt(getPoints(user)') = 0
                /\ getPoints(user) # ZeroHandle => getPoints(user)' # ZeroHandle]_vars

\* C12 witness: alice has placed her first prediction and her points handle
\* decrypts to 0, while the deployer, who never placed, still has the zero handle.
C12_Witness ==
    /\ HasPlaced("alice")
    /\ getPoints("alice") # ZeroHandle
    /\ Decrypt(getPoints("alice")) = 0
    /\ ~HasPlaced("deployer")
    /\ getPoints("deployer") = ZeroHandle

\* The handles the ledger stores for a user: the price and the direction of
\* each of their predictions, and their current points handle.
HandlesOf(user) ==
    {predictions[user][k[1]][k[2]].price :
        k \in {x \in Assets \X Days : predictions[user][x[1]][x[2]].exists}}
    \cup {predictions[user][k[1]][k[2]].direction :
        k \in {x \in Assets \X Days : predictions[user][x[1]][x[2]].exists}}
    \cup {points[u] : u \in {x \in {user} : pointsInitialized[x]}}

\* The users whose encrypted inputs a handle was computed from.
RECURSIVE InputsOf(_)
InputsOf(h) ==
    CASE h.op \in {"none", "trivialEncrypt"} -> {}
      [] h.op = "verifyInput" -> {h.input.by}
      [] h.op \in {"gt", "lt", "eq", "and", "or", "add"} ->
            InputsOf(h.lhs) \cup InputsOf(h.rhs)
      [] h.op = "select" ->
            InputsOf(h.control) \cup InputsOf(h.ifTrue) \cup InputsOf(h.ifFalse)

\* Every handle the ledger stores for a user is granted to the ledger and to
\* that user, and no grant is ever revoked.
GrantsKept ==
    /\ [](\A user \in Users : \A h \in HandlesOf(user) :
             <<h, This>> \in acl /\ <<h, user>> \in acl)
    /\ [][acl \subseteq acl']_vars

\* C13 as stated: a handle is granted to the ledger and to the user who owns
\* it only, so no user is granted a handle that is another user's; stored
\* handles are granted to both, and grants are never revoked.
C13_GrantsOwnerOnly ==
    /\ [](\A g \in acl :
             /\ g[2] \in {This} \cup Users
             /\ \A user \in Users : g[1] \in HandlesOf(user) => g[2] \in {This, user})
    /\ GrantsKept

\* C13 amended: the same, except for the encrypted zero every points account
\* starts with, a handle all initialized users share and are all granted;
\* every other handle granted to a user is computed from that user's inputs
\* only and is no other user's.
C13_GrantsOwnerOrZero ==
    /\ [](\A g \in acl :
             /\ g[2] \in {This} \cup Users
             /\ g[2] \in Users => InputsOf(g[1]) \subseteq {g[2]}
             /\ g[1] # FHE_asEuint128(0) =>
                   /\ g[2] \in Users => InputsOf(g[1]) = {g[2]}
                   /\ \A user \in Users :
                         g[1] \in HandlesOf(user) => g[2] \in {This, user})
    /\ GrantsKept

\* C13 witness: both users have placed a prediction; each is granted their own
\* price handle and not the other's, and both are granted the shared zero.
C13_Witness ==
    \E a \in Assets, d \in Days :
       /\ predictions["alice"][a][d].exists
       /\ predictions["deployer"][a][d].exists
       /\ <<predictions["alice"][a][d].price, "alice">> \in acl
       /\ <<predictions["alice"][a][d].price, "deployer">> \notin acl
       /\ <<predictions["deployer"][a][d].price, "deployer">> \in acl
       /\ points["alice"] = points["deployer"]
       /\ <<points["alice"], "alice">> \in acl
       /\ <<points["alice"], "deployer">> \in acl

\* A step leaves the prediction records and the points account of every user
\* other than the caller as they were.
OthersUnchanged(caller) ==
    \A user \in Users \ {caller} :
       /\ predictions'[user] = predictions[user]
       /\ points'[user] = points[user]
       /\ pointsInitialized'[user] = pointsInitialized[user]

\* C14: a placePrediction or confirmPrediction call by a caller changes no
\* other user's prediction records (handles, stake, exists, confirmed) and no
\* other user's points account.
C14_OwnKeysOnly ==
    [][\/ UNCHANGED ledger
       \/ /\ \A sender \in Users, asset \in AssetIds, day \in Days :
                confirmPrediction(sender, asset, day) => OthersUnchanged(sender)
          /\ \A sender \in Users, asset \in AssetIds, proofOk \in BOOLEAN,
                value \in StakeValues :
                \A encryptedPrice \in ExternalPrices(sender),
                   encryptedDirection \in ExternalDirections(sender) :
                   placePrediction(sender, asset, encryptedPrice,
                                   encryptedDirection, proofOk, value)
                      => OthersUnchanged(sender)]_vars

\* C14 witness: alice and the deployer hold predictions under the same asset
\* and day with different stakes: each placed theirs and left the other's alone.
C14_Witness ==
    \E a \in Assets, d \in Days :
       /\ predictions["alice"][a][d].exists
       /\ predictions["deployer"][a][d].exists
       /\ predictions["alice"][a][d].stake = 1
       /\ predictions["deployer"][a][d].stake = 2
       /\ predictions["alice"][a][d].price # predictions["deployer"][a][d].price

\* getLatestDay(asset)
getLatestDay(asset) == latestDay[asset]

\* C16: a successful recordDailyPrice for an asset sets the asset's latest day
\* to the day of that call, and nothing else changes it: not a failed call, not
\* a call for the other asset, not any other operation.  So the latest day is
\* the day of the most recent successful record, and 0 before the first.
C16_LatestDayTracksRecord ==
    /\ [](\A asset \in Assets :
             IF \E day \in Days : priceRecorded[asset][day]
             THEN priceRecorded[asset][getLatestDay(asset)]
             ELSE getLatestDay(asset) = 0)
    /\ [][\/ UNCHANGED ledger
          \/ \A asset \in Assets :
                IF \E sender \in Users, price \in RecordPrices :
                      /\ recordDailyPriceRevert(sender, asset, price) = "ok"
                      /\ recordDailyPrice(sender, asset, price)
                THEN getLatestDay(asset)' = currentDay
                ELSE getLatestDay(asset)' = getLatestDay(asset)]_vars

\* C16 witness: ETH was recorded on day 1 and again on day 2, BTC on day 1
\* only: the latest day of ETH has moved to 2 and left BTC's at 1.
C16_Witness ==
    /\ priceRecorded[0][1] /\ priceRecorded[0][2]
    /\ priceRecorded[1][1] /\ ~priceRecorded[1][2]
    /\ getLatestDay(0) = 2
    /\ getLatestDay(1) = 1

\* Alice holds the prediction of the end-to-end trace under (ETH, day):
\* the price will be above 1900.
EndToEndPrediction(day) ==
    /\ predictions["alice"][0][day].exists
    /\ Decrypt(predictions["alice"][0][day].price) = 1900
    /\ Decrypt(predictions["alice"][0][day].direction) = 1

\* C17: the end-to-end trace runs with every call succeeding.  On a day D the
\* owner's record of an ETH price succeeds and alice's placement (1900,
\* "greater", stake s) succeeds and is keyed to D + 1; on day D + 1 the owner's
\* record of 2000 or 2100 succeeds; alice's confirmation of (ETH, D + 1) then
\* succeeds while the current day is D + 1, and it adds exactly s to her
\* decrypted points.
C17_EndToEnd ==
    /\ [](/\ ~priceRecorded[0][currentDay] =>
               \A price \in SettleRecordPrices :
                  recordDailyPriceRevert(owner, 0, price) = "ok"
          /\ ~predictions["alice"][0][currentDay + 1].exists =>
               \A value \in SettleStakes :
                  placePredictionRevert("alice", 0, TRUE, value) = "ok"
          /\ \A day \in Days :
                (/\ EndToEndPrediction(day)
                 /\ ~predictions["alice"][0][day].confirmed
                 /\ currentDay = day
                 /\ priceRecorded[0][day]) =>
                   confirmPredictionRevert("alice", 0, day) = "ok"
          /\ \A day \in Days :
                (EndToEndPrediction(day) /\ predictions["alice"][0][day].confirmed) =>
                   Decrypt(points["alice"]) = predictions["alice"][0][day].stake)
    /\ [][\/ UNCHANGED ledger
          \/ /\ \A value \in SettleStakes :
                   placePrediction("alice", 0, [by |-> "alice", v |-> 1900],
                                   [by |-> "alice", v |-> 1], TRUE, value) =>
                      /\ EndToEndPrediction(currentDay + 1)'
                      /\ predictions'["alice"][0][currentDay + 1].stake = value
             /\ \A day \in Days :
                   (EndToEndPrediction(day) /\ confirmPrediction("alice", 0, day)) =>
                      Decrypt(points'["alice"]) =
                         Decrypt(points["alice"]) + predictions["alice"][0][day].stake]_vars

\* C17 witness: the end of the trace.  ETH was recorded on day 1 and, with
\* 2100, on day 2; alice's prediction (1900, "greater") for day 2 is confirmed
\* on day 2 and her points decrypt to its stake.
C17_Witness ==
    /\ currentDay = 2
    /\ priceRecorded[0][1]
    /\ priceRecorded[0][2]
    /\ dailyPrice[0][2] = 2100
    /\ EndToEndPrediction(2)
    /\ predictions["alice"][0][2].confirmed
    /\ predictions["alice"][0][2].stake = 2
    /\ Decrypt(points["alice"]) = 2

\* The sum of the stake fields of the predictions under a set of keys.
RECURSIVE StakeSum(_)
StakeSum(keys) ==
    IF keys = {}
    THEN 0
    ELSE LET k == CHOOSE x \in keys : TRUE
         IN PredictionAt(k).stake + StakeSum(keys \ {k})

\* C18: the value the ledger holds is the sum of the stakes of the existing
\* predictions, open or confirmed (a stake is held exactly when its prediction
\* exists, and every existing prediction has a stake), and no step decreases it.
C18_CustodyIsStakes ==
    /\ [](/\ balance = StakeSum({k \in Keys : PredictionAt(k).exists})
          /\ \A k \in Keys : PredictionAt(k).exists => PredictionAt(k).stake > 0)
    /\ [][balance' >= balance]_vars

\* C18 witness: the ledger holds 3, the stakes of alice's prediction of 1 and
\* of the deployer's prediction of 2.
C18_Witness ==
    /\ balance = 3
    /\ \E k1, k2 \in Keys :
          /\ k1[1] = "alice" /\ PredictionAt(k1).exists /\ PredictionAt(k1).stake = 1
          /\ k2[1] = "deployer" /\ PredictionAt(k2).exists /\ PredictionAt(k2).stake = 2

\* getPrice(asset, day): a view, so a function of the state; a key never
\* written reads as the default.
getPrice(asset, day) ==
    IF asset \in Assets /\ day \in Days
    THEN [price |-> dailyPrice[asset][day], recorded |-> priceRecorded[asset][day]]
    ELSE [price |-> 0, recorded |-> FALSE]

\* getPrediction(user, asset, day)
getPrediction(user, asset, day) ==
    IF asset \in Assets /\ day \in Days
    THEN predictions[user][asset][day]
    ELSE NoPrediction

\* C20: the reads return the defaults for keys never written: a price that is
\* not recorded reads as 0, and a prediction that does not exist reads with
\* stake 0, confirmed false and the zero handle for the price and the direction.
C20_ReadsDefaults ==
    /\ \A asset \in AssetIds, day \in Days :
          ~getPrice(asset, day).recorded => getPrice(asset, day).price = 0
    /\ \A user \in Users, asset \in AssetIds, day \in Days :
          ~getPrediction(user, asset, day).exists =>
             /\ getPrediction(user, asset, day).stake = 0
             /\ ~getPrediction(user, asset, day).confirmed
             /\ getPrediction(user, asset, day).price = ZeroHandle
             /\ getPrediction(user, asset, day).direction = ZeroHandle

\* C20 witness: ETH is recorded today and BTC is not, and reads as 0; alice
\* holds a prediction for tomorrow and the deployer does not, and reads as the
\* default record.
C20_Witness ==
    /\ getPrice(0, currentDay).recorded
    /\ getPrice(0, currentDay).price > 0
    /\ getPrice(1, currentDay) = [price |-> 0, recorded |-> FALSE]
    /\ getPrediction("alice", 0, currentDay + 1).exists
    /\ getPrediction("alice", 0, currentDay + 1).price # ZeroHandle
    /\ getPrediction("deployer", 0, currentDay + 1) = NoPrediction

\* The revert reason and the step of a call, as the specification has them.
RevertOf(call) ==
    CASE call.fn = "recordDailyPrice" ->
            recordDailyPriceRevert(call.sender, call.asset, call.price)
      [] call.fn = "placePrediction" ->
            placePredictionRevert(call.sender, call.asset, call.proofOk, call.value)
      [] call.fn = "confirmPrediction" ->
            confirmPredictionRevert(call.sender, call.asset, call.day)

StepOf(call) ==
    CASE call.fn = "recordDailyPrice" ->
            recordDailyPrice(call.sender, call.asset, call.price)
      [] call.fn = "placePrediction" ->
            placePrediction(call.sender, call.asset, call.encryptedPrice,
                            call.encryptedDirection, call.proofOk, call.value)
      [] call.fn = "confirmPrediction" ->
            confirmPrediction(call.sender, call.asset, call.day)

\* The calls as state transformers are the calls of the specification: each
\* gives the revert reason the call has ...
ReasonsAgree(calls) ==
    \A call \in calls : Execute(State, call).reason = RevertOf(call)

\* ... and every step of a call ends in the state it gives.
StepsAgree(calls) ==
    \A call \in calls : StepOf(call) => State' = Execute(State, call).state

\* Two calls in either order from a state: each has the outcome it has when it
\* goes first, and the two orders end in the same state (the log is a bag, so
\* the order of the two events is not part of the state).  When both calls
\* revert the state never changes and there is nothing to compare.
Commute(s, a, b) ==
    LET ra == Execute(s, a)
        rb == Execute(s, b)
        rab == Execute(ra.state, b)
        rba == Execute(rb.state, a)
    IN
    (ra.reason = "ok" \/ rb.reason = "ok") =>
       /\ rab.reason = rb.reason
       /\ rba.reason = ra.reason
       /\ rab.state = rba.state

\* A recordDailyPrice call and a user's call touch different (asset, day) keys:
\* a placement is keyed to tomorrow, a record to today.
DisjointKeys(record, call) ==
    call.fn = "confirmPrediction" =>
       <<call.asset, call.day>> # <<record.asset, currentDay>>

\* C19: calls on disjoint keys commute.  From every reachable state, a
\* placePrediction or confirmPrediction of one user and one of another user,
\* and a recordDailyPrice and a user's call on another (asset, day), have the
\* same outcomes and the same final state in either order.
C19_DisjointCallsCommute ==
    /\ [](ReasonsAgree(RecordCalls \cup UserCalls("alice") \cup UserCalls("deployer")))
    /\ [][\/ UNCHANGED ledger
          \/ StepsAgree(RecordCalls \cup UserCalls("alice") \cup UserCalls("deployer"))]_vars
    /\ [](/\ \A a \in UserCalls("alice"), b \in UserCalls("deployer") :
                Commute(State, a, b)
          /\ \A a \in RecordCalls : \A sender \in Users : \A b \in UserCalls(sender) :
                DisjointKeys(a, b) => Commute(State, a, b))

\* C19 witness: alice and the deployer can each confirm a prediction of their
\* own, and the owner can record the price of the other asset: all three calls
\* succeed now.
C19_Witness ==
    \E asset \in Assets, day \in Days, price \in RecordPrices :
       /\ confirmPredictionRevert("alice", asset, day) = "ok"
       /\ confirmPredictionRevert("deployer", asset, day) = "ok"
       /\ recordDailyPriceRevert(owner, 1 - asset, price) = "ok"
       /\ Commute(State,
                  [fn |-> "confirmPrediction", sender |-> "alice", asset |-> asset,
                   day |-> day],
                  [fn |-> "confirmPrediction", sender |-> "deployer", asset |-> asset,
                   day |-> day])

\* What an observer without the keys sees of a handle: the computation that
\* produced it, with the plaintext of every encrypted input blanked.
RECURSIVE PublicHandle(_)
PublicHandle(h) ==
    CASE h.op \in {"none", "trivialEncrypt"} -> h
      [] h.op = "verifyInput" -> [h EXCEPT !.input.v = 0]
      [] h.op \in {"gt", "lt", "eq", "and", "or", "add"} ->
            [h EXCEPT !.lhs = PublicHandle(@), !.rhs = PublicHandle(@)]
      [] h.op = "select" ->
            [h EXCEPT !.control = PublicHandle(@), !.ifTrue = PublicHandle(@),
                      !.ifFalse = PublicHandle(@)]

\* What the observer sees of a state: everything (flags, stakes, prices, latest
\* days, grants, log, balance, clock), the handles as they see handles.
PublicState(s) ==
    [s EXCEPT !.predictions =
                 [u \in Users |-> [a \in Assets |-> [d \in Days |->
                     [s.predictions[u][a][d] EXCEPT !.price = PublicHandle(@),
                                                    !.direction = PublicHandle(@)]]]],
              !.points = [u \in Users |-> PublicHandle(s.points[u])],
              !.acl = {<<PublicHandle(g[1]), g[2]>> : g \in s.acl}]

\* What the observer sees of a call: everything but the plaintexts of its
\* encrypted inputs.
PublicCall(call) ==
    IF call.fn = "placePrediction"
    THEN [call EXCEPT !.encryptedPrice.v = 0, !.encryptedDirection.v = 0]
    ELSE call

\* The calls with every secret of the settlement scenario.
SecretCalls ==
    RecordCalls
    \cup {[fn |-> "confirmPrediction", sender |-> sender, asset |-> asset, day |-> day] :
             sender \in Users, asset \in AssetIds, day \in Days}
    \cup {[fn |-> "placePrediction", sender |-> sender, asset |-> asset,
           encryptedPrice |-> [by |-> sender, v |-> p],
           encryptedDirection |-> [by |-> sender, v |-> dir],
           proofOk |-> proofOk, value |-> value] :
             sender \in Users, asset \in AssetIds, p \in SettlePrices,
             dir \in SettleDirections, proofOk \in BOOLEAN, value \in StakeValues}

\* C15: what the ledger shows does not depend on the secret predictions.  From
\* every reachable state and for every call, the call's outcome is the outcome
\* of the same call on what the observer sees of the state, and what the
\* observer sees of the state after it is the state that call gives there.  So
\* two runs of the same calls that differ in the encrypted plaintexts only
\* have the same outcomes, flags, stakes, price records, latest days, grants
\* and log, step after step; they differ in what the handles decrypt to.
C15_SecretsDoNotShow ==
    /\ [](ReasonsAgree(SecretCalls))
    /\ [][UNCHANGED ledger \/ StepsAgree(SecretCalls)]_vars
    /\ [](LET seen == PublicState(State) IN
          \A call \in SecretCalls :
             LET r == Execute(State, call)
                 q == Execute(seen, PublicCall(call))
             IN /\ r.reason = q.reason
                /\ PublicState(r.state) = q.state)

\* C15 witness: alice's confirmed prediction was right and her points decrypt
\* to its stake; the observer sees the same state as in the run where her
\* inputs were blank, where her points decrypt to 0.
C15_Witness ==
    \E day \in Days :
       /\ predictions["alice"][0][day].confirmed
       /\ Decrypt(points["alice"]) = predictions["alice"][0][day].stake
       /\ Decrypt(PublicState(State).points["alice"]) = 0
       /\ PublicState(State) # State


\* ------------------------------------------------------------------ C21
\* C21 as stated: every step that confirms a prediction is taken on a day
\* strictly later than the prediction's day, so a prediction for day d never
\* becomes Confirmed while currentDay = d.
C21_ConfirmAfterDay ==
    [][UNCHANGED ledger \/
       \A user \in Users : \A k \in NewlyConfirmed(user) : currentDay > k[3]]_vars

\* C21, amended: every step that confirms a prediction is taken on a day not
\* earlier than the prediction's day (a call for a later day reverts with
\* "Too early"), so a prediction for day d never becomes Confirmed while
\* currentDay < d; it can become Confirmed while currentDay = d.
C21_ConfirmNotBeforeDay ==
    /\ [](\A sender \in Users, asset \in Assets, day \in Days :
            day > currentDay =>
               confirmPredictionRevert(sender, asset, day) = "Too early")
    /\ [][UNCHANGED ledger \/
          \A user \in Users : \A k \in NewlyConfirmed(user) : currentDay >= k[3]]_vars

\* C21 witness: a prediction that is Confirmed while the current day is still
\* the prediction's day, the same call for the next day reverting with
\* "Too early".
C21_Witness ==
    \E k \in Keys :
       /\ PredictionAt(k).confirmed /\ currentDay = k[3]
       /\ PredictionEventCount("PredictionConfirmed", k) = 1
       /\ k[3] + 1 \in Days
       /\ confirmPredictionRevert(k[1], k[2], k[3] + 1) = "Too early"

\* ------------------------------------------------------------------ C22
\* The tally scenario: alice stakes 1 or the largest stake on ETH and 1 on BTC,
\* always on "above 2050"; the owner records 2100 for ETH and 2000 or 2100 for
\* BTC; alice confirms.
TallyRecordPrices(asset) == IF asset = 0 THEN {2100} ELSE SettleRecordPrices
TallyStakes(asset) == IF asset = 0 THEN AccrueStakes ELSE {1}

NextTally ==
    \/ Tick
    \/ \E asset \in Assets : \E price \in TallyRecordPrices(asset) :
          recordDailyPrice(owner, asset, price)
    \/ \E asset \in Assets : \E value \in TallyStakes(asset) :
       \E encryptedPrice \in ExternalPrices("alice"),
          encryptedDirection \in ExternalDirections("alice") :
          placePrediction("alice", asset, encryptedPrice, encryptedDirection, TRUE, value)
    \/ \E asset \in Assets, day \in Days :
          confirmPrediction("alice", asset, day)

SpecTally == Init /\ [][NextTally]_vars

\* The sum of the rewards the settlement owes to the predictions under a set of
\* keys: the stake of each correct one, nothing for the others.
RECURSIVE RewardSum(_)
RewardSum(keys) ==
    IF keys = {}
    THEN 0
    ELSE LET k == CHOOSE x \in keys : TRUE
         IN ExpectedReward(k) + RewardSum(keys \ {k})

\* The keys of a user's Confirmed predictions.
ConfirmedKeys(user) == {k \in Keys : k[1] = user /\ PredictionAt(k).confirmed}

\* C22: in every reachable state each user's decrypted points are the sum,
\* modulo 2^128, of the stakes of the user's own Confirmed predictions that
\* were correct against the recorded price of their (asset, day); Open
\* predictions, incorrect Confirmed ones and other users' predictions add
\* nothing.
C22_PointsAreCorrectStakes ==
    \A user \in Users :
       Decrypt(getPoints(user)) = RewardSum(ConfirmedKeys(user)) % (Uint128Max + 1)

\* C22 witness: alice holds a Confirmed correct prediction, a Confirmed
\* incorrect one and an Open one, and her points are the stake of the first;
\* the deployer's points are 0.
C22_Witness ==
    \E k1 \in ConfirmedKeys("alice"), k2 \in ConfirmedKeys("alice") :
       /\ ExpectedReward(k1) = Uint128Max
       /\ PredictionAt(k2).stake = 1 /\ ExpectedReward(k2) = 0
       /\ \E k3 \in Keys :
             /\ k3[1] = "alice"
             /\ PredictionAt(k3).exists /\ ~PredictionAt(k3).confirmed
       /\ Decrypt(getPoints("alice")) = Uint128Max
       /\ Decrypt(getPoints("deployer")) = 0

\* ------------------------------------------------------------------ C23
\* C23: a step that places a prediction under (user, asset, d) is taken on
\* day d - 1 with no price recorded for (asset, d); a step that records the
\* price of (asset, d) is taken on day d, after every placement on that key;
\* a step that confirms a key finds its prediction placed and its price
\* recorded; so the order is placed, recorded on a later day, confirmed, and a
\* confirmed key has a recorded price and a day not after the current day.
C23_PlacedRecordedConfirmed ==
    /\ [](\A k \in Keys :
            /\ priceRecorded[k[2]][k[3]] => k[3] <= currentDay
            /\ PredictionAt(k).confirmed =>
                  /\ PredictionAt(k).exists
                  /\ priceRecorded[k[2]][k[3]]
                  /\ k[3] <= currentDay)
    /\ [][UNCHANGED ledger \/
          \A k \in Keys :
             /\ (~PredictionAt(k).exists /\ PredictionAt(k).exists') =>
                   /\ k[3] = currentDay + 1
                   /\ ~priceRecorded[k[2]][k[3]]
                   /\ ~priceRecorded'[k[2]][k[3]]
             /\ (~priceRecorded[k[2]][k[3]] /\ priceRecorded'[k[2]][k[3]]) =>
                   /\ k[3] = currentDay
                   /\ PredictionAt(k).exists' = PredictionAt(k).exists
                   /\ ~PredictionAt(k).confirmed'
             /\ (~PredictionAt(k).confirmed /\ PredictionAt(k).confirmed') =>
                   /\ PredictionAt(k).exists
                   /\ priceRecorded[k[2]][k[3]]]_vars

\* C23 witness: a key that went through the three steps (the log holds its
\* PredictionPlaced, the PriceRecorded of its asset and day and its
\* PredictionConfirmed), no price being recorded for tomorrow.
C23_Witness ==
    \E k \in Keys :
       /\ PredictionAt(k).confirmed /\ k[3] <= currentDay
       /\ PredictionEventCount("PredictionPlaced", k) = 1
       /\ PriceRecordedCount(k[2], k[3]) = 1
       /\ PredictionEventCount("PredictionConfirmed", k) = 1
       /\ ~priceRecorded[k[2]][currentDay + 1]

\* ------------------------------------------------------------------ C24
\* The lapse scenario: the two-user scenario on a ledger deployed a day
\* earlier (in the middle of day 0), so that the clock outlives the day of a
\* prediction placed on the first day.
EarlyGenesis == OneDay \div 2

InitLapse ==
    /\ timestamp = EarlyGenesis
    /\ owner = "deployer"
    /\ dailyPrice = [a \in Assets |-> [d \in Days |-> 0]]
    /\ priceRecorded = [a \in Assets |-> [d \in Days |-> FALSE]]
    /\ latestDay = [a \in Assets |-> 0]
    /\ predictions = [u \in Users |-> [a \in Assets |-> [d \in Days |-> NoPrediction]]]
    /\ points = [u \in Users |-> ZeroHandle]
    /\ pointsInitialized = [u \in Users |-> FALSE]
    /\ acl = {}
    /\ balance = 0
    /\ events = emit(EmptyBag, [name |-> "OwnerUpdated", previousOwner |-> "0x0",
                                   newOwner |-> "deployer"])

SpecLapse == InitLapse /\ [][NextPair]_vars

\* The day of key k is over and no price was recorded for it.
Lapsed(k) == currentDay > k[3] /\ ~priceRecorded[k[2]][k[3]]

\* C24: once the day of (asset, d) is over with no price recorded, no step
\* records one; an Open prediction on such a key stays Open with its stake,
\* its confirmation reverts with "Price not recorded", no step changes its
\* owner's points by confirming it, and the ledger keeps holding at least its
\* stake.
C24_LapsedStaysOpen ==
    /\ [](\A k \in Keys :
            (Lapsed(k) /\ PredictionAt(k).exists) =>
               /\ ~PredictionAt(k).confirmed
               /\ confirmPredictionRevert(k[1], k[2], k[3]) = "Price not recorded"
               /\ balance >= PredictionAt(k).stake)
    /\ [][\A k \in Keys :
            Lapsed(k) =>
               /\ Lapsed(k)'
               /\ PredictionAt(k).exists =>
                     /\ PredictionAt(k)' = PredictionAt(k)
                     /\ k \notin NewlyConfirmed(k[1])
                     /\ balance' >= balance]_vars

\* C24 witness: an Open prediction whose day is over without a recorded
\* price, while the other user's prediction on the other asset of the same day
\* is Confirmed.
C24_Witness ==
    \E k \in Keys, k2 \in Keys :
       /\ PredictionAt(k).exists /\ ~PredictionAt(k).confirmed
       /\ Lapsed(k)
       /\ balance >= PredictionAt(k).stake
       /\ k2[1] # k[1] /\ k2[2] # k[2] /\ k2[3] = k[3]
       /\ PredictionAt(k2).confirmed

\* ------------------------------------------------------------------ C25
\* The lapse scenario in which no user gives up a confirmation that would
\* succeed: a confirmPrediction call that stays possible is eventually made.
SpecLapseFair ==
    /\ InitLapse
    /\ [][NextPair]_vars
    /\ \A sender \in Users, asset \in Assets, day \in Days :
          WF_vars(confirmPrediction(sender, asset, day))

\* The prediction under k is Open, its price is recorded and its day has come.
Confirmable(k) ==
    /\ PredictionAt(k).exists /\ ~PredictionAt(k).confirmed
    /\ priceRecorded[k[2]][k[3]]
    /\ currentDay >= k[3]

\* C25: whenever a prediction is Open with its price recorded and its day
\* come, its owner's confirmPrediction passes every check; no step takes that
\* away except the owner's confirmation itself (the clock, the operator and
\* the other users leave it in place); and if the owners keep calling, from
\* some point on no prediction is left in that state, that is, each of them is
\* eventually Confirmed.
C25_ConfirmAvailable ==
    /\ [](\A k \in Keys :
            Confirmable(k) => confirmPredictionRevert(k[1], k[2], k[3]) = "ok")
    /\ [][\A k \in Keys :
            Confirmable(k) =>
               \/ Confirmable(k)'
               \/ /\ k \in NewlyConfirmed(k[1])
                  /\ PredictionEventCount("PredictionConfirmed", k)' = 1]_vars
    /\ <>[](\A k \in Keys : ~Confirmable(k))

\* C25 witness: a prediction that is Confirmed, next to the other user's
\* prediction that is still confirmable a day after its own day.
C25_Witness ==
    \E k \in Keys, k2 \in Keys :
       /\ k[1] # k2[1]
       /\ PredictionAt(k).confirmed
       /\ Confirmable(k2) /\ currentDay > k2[3]
       /\ confirmPredictionRevert(k2[1], k2[2], k2[3]) = "ok"

\* ------------------------------------------------------------------ C26
\* The days for which a price of the asset is recorded.
RecordedDays(asset) == {d \in Days : priceRecorded[asset][d]}

\* C26: no step decreases the latest day of an asset (the clock only grows),
\* and as soon as a price of the asset is recorded, the latest day is the
\* highest day with a recorded price.
C26_LatestDayIsHighest ==
    /\ [](\A asset \in Assets :
            RecordedDays(asset) # {} =>
               /\ getLatestDay(asset) \in RecordedDays(asset)
               /\ \A d \in RecordedDays(asset) : d <= getLatestDay(asset))
    /\ [][/\ currentDay' >= currentDay
          /\ \A asset \in Assets : getLatestDay(asset)' >= getLatestDay(asset)]_vars

\* C26 witness: an asset with prices recorded on two days, its latest day the
\* later of the two, the other asset having none.
C26_Witness ==
    \E asset \in Assets, other \in Assets :
       /\ Cardinality(RecordedDays(asset)) = 2
       /\ getLatestDay(asset) = currentDay
       /\ currentDay - 1 \in RecordedDays(asset)
       /\ RecordedDays(other) = {}

\* ------------------------------------------------------------------ C27
\* The PredictionPlaced events of the log.
PlacedEvents == {e \in BagToSet(events) : e.name = "PredictionPlaced"}

\* C27: placePrediction reports the first failure in the order "Invalid
\* asset", "Stake required", "Stake too large", "Prediction exists", "Invalid
\* proof", and a call that fails leaves the whole state as it was (the key
\* stays as it is, no points account appears); so every prediction ever placed
\* is on asset 0 or 1 with 0 < stake <= type(uint128).max.
C27_PlaceCheckOrder ==
    /\ \A sender \in Users, asset \in AssetIds, proofOk \in BOOLEAN,
          value \in StakeValues :
          LET result == placePredictionRevert(sender, asset, proofOk, value)
              expected ==
                 IF asset \notin Assets THEN "Invalid asset"
                 ELSE IF value = 0 THEN "Stake required"
                 ELSE IF value > Uint128Max THEN "Stake too large"
                 ELSE IF PredictionAt(<<sender, asset, currentDay + 1>>).exists
                      THEN "Prediction exists"
                 ELSE IF ~proofOk THEN "Invalid proof"
                 ELSE "ok"
          IN /\ result = expected
             /\ result # "ok" =>
                   \A encryptedPrice \in ExternalPrices(sender),
                      encryptedDirection \in ExternalDirections(sender) :
                      LET call == placePredictionCall(State, sender, asset,
                                     encryptedPrice, encryptedDirection, proofOk, value)
                      IN call.reason = result /\ call.state = State
    /\ \A k \in Keys :
          PredictionAt(k).exists =>
             /\ k[2] \in {0, 1}
             /\ 0 < PredictionAt(k).stake /\ PredictionAt(k).stake <= Uint128Max
    /\ \A e \in PlacedEvents :
          /\ e.asset \in {0, 1}
          /\ 0 < e.stake /\ e.stake <= Uint128Max
          /\ PredictionAt(<<e.user, e.asset, e.day>>).exists
          /\ PredictionAt(<<e.user, e.asset, e.day>>).stake = e.stake

\* C27 witness: alice holds a prediction for tomorrow, on which a call without
\* stake fails with "Stake required" and a call with stake with "Prediction
\* exists"; the deployer holds none, and a call of theirs with an invalid proof
\* fails with "Invalid proof" and would leave their points account
\* uninitialized.
C27_Witness ==
    \E asset \in Assets :
       /\ PredictionAt(<<"alice", asset, currentDay + 1>>).exists
       /\ placePredictionRevert("alice", asset, FALSE, 0) = "Stake required"
       /\ placePredictionRevert("alice", asset, FALSE, 1) = "Prediction exists"
       /\ ~PredictionAt(<<"deployer", asset, currentDay + 1>>).exists
       /\ ~pointsInitialized["deployer"]
       /\ placePredictionRevert("deployer", asset, FALSE, 1) = "Invalid proof"
       /\ \A encryptedPrice \in ExternalPrices("deployer"),
             encryptedDirection \in ExternalDirections("deployer") :
             ~placePredictionCall(State, "deployer", asset, encryptedPrice,
                                  encryptedDirection, FALSE, 1).state.pointsInitialized["deployer"]

\* ------------------------------------------------------------------ C28
\* How many times the log holds an event.
EventCount(event) == IF event \in BagToSet(events) THEN events[event] ELSE 0

\* The OwnerUpdated events of the log.
OwnerUpdatedEvents == {e \in BagToSet(events) : e.name = "OwnerUpdated"}

\* C28: the log mirrors the state.  It holds one OwnerUpdated, emitted by
\* the constructor; for every (asset, day) one PriceRecorded, carrying the
\* stored price, if the price is recorded and none otherwise; for every key one
\* PredictionPlaced, carrying the stored stake, if the prediction exists and
\* none otherwise, and one PredictionConfirmed if it is confirmed and none
\* otherwise; and nothing else.  Every step appends one event or none, and a
\* step that leaves the ledger's storage unchanged appends none.
C28_LogMirrorsState ==
    /\ [](/\ OwnerUpdatedEvents = {[name |-> "OwnerUpdated", previousOwner |-> "0x0",
                                     newOwner |-> owner]}
          /\ \A e \in OwnerUpdatedEvents : events[e] = 1
          /\ \A asset \in Assets, day \in Days :
                /\ PriceRecordedCount(asset, day) = IF priceRecorded[asset][day] THEN 1 ELSE 0
                /\ priceRecorded[asset][day] =>
                      EventCount([name |-> "PriceRecorded", asset |-> asset, day |-> day,
                                  price |-> dailyPrice[asset][day]]) = 1
          /\ \A k \in Keys :
                /\ PredictionEventCount("PredictionPlaced", k) =
                      IF PredictionAt(k).exists THEN 1 ELSE 0
                /\ PredictionAt(k).exists =>
                      EventCount([name |-> "PredictionPlaced", user |-> k[1],
                                  asset |-> k[2], day |-> k[3],
                                  stake |-> PredictionAt(k).stake]) = 1
                /\ PredictionEventCount("PredictionConfirmed", k) =
                      IF PredictionAt(k).confirmed THEN 1 ELSE 0
          /\ BagCardinality(events) = 1 + Calls)
    /\ [][UNCHANGED events \/
          /\ BagCardinality(events') = BagCardinality(events) + 1
          /\ \A e \in BagToSet(events) : e \in BagToSet(events') /\ events'[e] >= events[e]
          /\ ~UNCHANGED <<dailyPrice, priceRecorded, latestDay, predictions, points,
                           balance>>]_vars

\* C28 witness: after one call of each kind has succeeded the log holds the
\* constructor's OwnerUpdated, one PriceRecorded, one PredictionPlaced and one
\* PredictionConfirmed, four events in all.
C28_Witness ==
    \E k \in Keys :
       /\ PredictionAt(k).confirmed
       /\ EventCount([name |-> "PredictionConfirmed", user |-> k[1], asset |-> k[2],
                      day |-> k[3]]) = 1
       /\ EventCount([name |-> "PredictionPlaced", user |-> k[1], asset |-> k[2],
                      day |-> k[3], stake |-> PredictionAt(k).stake]) = 1
       /\ EventCount([name |-> "PriceRecorded", asset |-> k[2], day |-> k[3],
                      price |-> dailyPrice[k[2]][k[3]]]) = 1
       /\ Cardinality(OwnerUpdatedEvents) = 1
       /\ BagCardinality(events) = 4

\* ------------------------------------------------------------------ C29
\* C29: no step changes the price handle, the direction handle or the stake of
\* an existing prediction; and a step that confirms a prediction confirms one
\* key, changes nothing else in the predictions, replaces the points handle of
\* the key's user only, adds grants on the new points handle only (to the
\* ledger and to that user), appends the key's PredictionConfirmed to the log,
\* and leaves the price records, the latest days, the ledger's balance, the
\* owner and the initialised accounts as they were.
C29_ConfirmFrame ==
    [][UNCHANGED ledger \/
       /\ \A k \in Keys :
             PredictionAt(k).exists =>
                /\ PredictionAt(k).exists'
                /\ PredictionAt(k).price' = PredictionAt(k).price
                /\ PredictionAt(k).direction' = PredictionAt(k).direction
                /\ PredictionAt(k).stake' = PredictionAt(k).stake
       /\ \A k \in Keys :
             (~PredictionAt(k).confirmed /\ PredictionAt(k).confirmed') =>
                /\ predictions' = [predictions EXCEPT ![k[1]][k[2]][k[3]].confirmed = TRUE]
                /\ \A user \in Users \ {k[1]} : points'[user] = points[user]
                /\ points'[k[1]] # points[k[1]]
                /\ acl \subseteq acl'
                /\ acl' \ acl \subseteq {<<points'[k[1]], This>>, <<points'[k[1]], k[1]>>}
                /\ events' = emit(events, [name |-> "PredictionConfirmed", user |-> k[1],
                                             asset |-> k[2], day |-> k[3]])
                /\ UNCHANGED <<owner, dailyPrice, priceRecorded, latestDay,
                                pointsInitialized, balance>>]_vars

\* C29 witness: a Confirmed prediction that still carries the handles of its
\* user's inputs and its stake, the ledger still holding the stake and the
\* user's points being the sum the confirmation stored.
C29_Witness ==
    \E k \in Keys :
       /\ PredictionAt(k).confirmed
       /\ PredictionAt(k).price.op = "verifyInput"
       /\ PredictionAt(k).direction.op = "verifyInput"
       /\ PredictionAt(k).stake = 2 /\ balance = 2
       /\ points[k[1]].op = "add"
       /\ <<points[k[1]], k[1]>> \in acl
       /\ getLatestDay(k[2]) = k[3]

\* ------------------------------------------------------------------ C30
\* C30: a step that records a price records it for one asset and the current
\* day: it writes that entry of the prices and of the recorded flags and the
\* asset's latest day, appends the PriceRecorded of the entry to the log, and
\* leaves every other entry, the other asset's latest day, the predictions,
\* the points, the grants, the ledger's balance and the owner as they were.
C30_RecordFrame ==
    [][UNCHANGED ledger \/
       \A asset \in Assets, day \in Days :
          (~priceRecorded[asset][day] /\ priceRecorded[asset][day]') =>
             /\ day = currentDay
             /\ dailyPrice' = [dailyPrice EXCEPT ![asset][day] = dailyPrice[asset][day]']
             /\ priceRecorded' = [priceRecorded EXCEPT ![asset][day] = TRUE]
             /\ latestDay' = [latestDay EXCEPT ![asset] = day]
             /\ events' = emit(events, [name |-> "PriceRecorded", asset |-> asset,
                                          day |-> day,
                                          price |-> dailyPrice[asset][day]'])
             /\ UNCHANGED <<owner, predictions, points, pointsInitialized, acl,
                             balance>>]_vars

\* C30 witness: an asset recorded today while the other asset's last record
\* is yesterday's and an Open prediction keeps its stake in the ledger.
C30_Witness ==
    \E asset \in Assets, other \in Assets, k \in Keys :
       /\ priceRecorded[asset][currentDay] /\ getLatestDay(asset) = currentDay
       /\ ~priceRecorded[other][currentDay]
       /\ priceRecorded[other][currentDay - 1]
       /\ getLatestDay(other) = currentDay - 1
       /\ PredictionAt(k).exists /\ ~PredictionAt(k).confirmed
       /\ balance = PredictionAt(k).stake
       /\ pointsInitialized[k[1]]

\* ------------------------------------------------------------------ C31
\* The range scenario: the owner submits prices at and around the largest
\* 64-bit value, alice stakes amounts at and around the largest 128-bit value
\* on "ETH above 2050", and confirms.
RangePrices == {2000, Uint64Max - 1, Uint64Max, Uint64Max + 1, Uint64Max + 2}
RangeStakes == {1, Uint128Max - 1, Uint128Max, Uint128Max + 1, Uint128Max + 2}

NextRange ==
    \/ Tick
    \/ \E price \in RangePrices : recordDailyPrice(owner, 0, price)
    \/ \E value \in RangeStakes :
       \E encryptedPrice \in ExternalPrices("alice"),
          encryptedDirection \in ExternalDirections("alice") :
          placePrediction("alice", 0, encryptedPrice, encryptedDirection, TRUE, value)
    \/ \E day \in Days : confirmPrediction("alice", 0, day)

SpecRange == Init /\ [][NextRange]_vars

\* The trivially encrypted actual price inside a reward: the left operand of
\* its FHE.gt comparison.
ActualOf(r) == r.control.lhs.rhs.lhs

\* C31: recordDailyPrice reverts with "Price too large" exactly for the prices
\* above the 64-bit maximum (the maximum itself is accepted) and
\* placePrediction with "Stake too large" exactly for the positive stakes
\* above the 128-bit maximum; so every recorded price and every stored stake
\* fits its width, and in the settlement of any prediction against any
\* recorded price the 64-bit actual price decrypts to the recorded price and
\* the 128-bit reward of a correct prediction to the stored stake.
C31_NarrowingLossless ==
    /\ \A asset \in Assets, price \in RangePrices :
          (recordDailyPriceRevert(owner, asset, price) = "Price too large")
             = (price > Uint64Max)
    /\ \A sender \in Users, asset \in Assets, proofOk \in BOOLEAN,
          value \in RangeStakes :
          (placePredictionRevert(sender, asset, proofOk, value) = "Stake too large")
             = (value > Uint128Max)
    /\ \A asset \in Assets, day \in Days :
          priceRecorded[asset][day] => dailyPrice[asset][day] <= Uint64Max
    /\ \A k \in Keys :
          PredictionAt(k).exists =>
             /\ PredictionAt(k).stake <= Uint128Max
             /\ priceRecorded[k[2]][k[3]] =>
                   LET r == reward(PredictionAt(k), dailyPrice[k[2]][k[3]]) IN
                   /\ Decrypt(ActualOf(r)) = dailyPrice[k[2]][k[3]]
                   /\ Decrypt(r.ifTrue) = PredictionAt(k).stake
                   /\ Decrypt(r) = ExpectedReward(k)

\* C31 witness: a prediction with the largest stake, confirmed against the
\* largest price: alice's points are the whole stake.
C31_Witness ==
    \E k \in Keys :
       /\ PredictionAt(k).confirmed
       /\ PredictionAt(k).stake = Uint128Max
       /\ dailyPrice[k[2]][k[3]] = Uint64Max
       /\ Decrypt(ActualOf(reward(PredictionAt(k), dailyPrice[k[2]][k[3]]))) = Uint64Max
       /\ Decrypt(getPoints(k[1])) = Uint128Max
       /\ recordDailyPriceRevert(owner, 1, Uint64Max + 1) = "Price too large"
====
